---- MODULE Spec2Model ----
(***************************************************************************)
(* Frame-acquisition pipeline and gesture matcher of the multi-modal       *)
(* tracker (main.py, rpicam_video.py, rpicamera.py, gesture_recognizer.py).*)
(*                                                                         *)
(* Spec     : one ThreadedFrameReader object driven through its public    *)
(*            methods by the main thread, with its acquisition threads.   *)
(* SpecDrain: the drain loop of get_latest_frame against a camera that     *)
(*            never fails, with fair scheduling of both threads.           *)
(* SpecRun  : MultiModalTracker.run with cleanup and re-initialization.    *)
(* SpecInit : one call of MultiModalTracker._init_camera.                  *)
(* SpecGesture : one GestureRecognizer driven through its public methods.  *)
(* SpecStore: a GestureRecognizer built on a gestures.json document, its   *)
(*            templates with their data, its settings and the document.    *)
(* SpecLoop : landmark vectors, their similarity, recognition on vectors   *)
(*            and the two loops that process camera frames.                *)
(* SpecShared : two GestureRecognizer objects on one gestures.json, with    *)
(*            writes of the document that can fail.                         *)
(* SpecRestart: one ThreadedFrameReader with start() and stop() called in   *)
(*            any order.                                                    *)
(***************************************************************************)
EXTENDS Naturals, Integers, Sequences, FiniteSets, TLC

(***************************************************************************)
(* Program constants.                                                      *)
(***************************************************************************)
\* ThreadedFrameReader(self.cap, buffer_size=2)
buffer_size == 2
\* RpiCameraVideo: self.frame_queue = queue.Queue(maxsize=2)
video_maxsize == 2
\* self.max_failures = 10
max_failures == 10
\* time_since_last_frame < 3.0 (seconds)
StaleWindow == 3
\* self.thread.join(timeout=1.0) (seconds)
JoinTimeout == 1

\* run(): max_retries = 3
max_retries == 3
\* _main_loop: max_frame_failures = 10
max_frame_failures == 10
\* _main_loop: if no_frame_count >= 300
NoFrameLimit == 300
\* _init_camera: for i in range(5), the warm-up reads of the OpenCV variant
WarmupReads == 5

(***************************************************************************)
(* Bounds of the model.                                                    *)
(***************************************************************************)
\* frames the camera delivers in one behaviour
MaxFrames == 4
\* acquisition threads of one reader alive at the same time
MaxThreads == 2
\* frame size of the planar-video backend (CAMERA_WIDTH x CAMERA_HEIGHT, scaled down)
Width == 2
Height == 2
\* most bytes one read of the subprocess pipe returns (at most 8192, scaled down)
MaxChunk == 4
\* cap of the consecutive_failures counter (it is never reset by start())
MaxFailCount == 11

\* similarities and thresholds are the levels 0..MaxSim of the interval [0, 1]
MaxSim == 2
\* largest cooldown_time, in clock ticks
MaxCooldown == 1
\* clock ticks that pass in one behaviour
MaxTime == 1

Threads == 1..MaxThreads

Min(a, b) == IF a <= b THEN a ELSE b

VARIABLES
    \* ---- ThreadedFrameReader fields
    frame_queue,            \* queue.Queue(maxsize=buffer_size): frames, oldest first
    running,                \* self.running
    thread,                 \* self.thread: slot of the latest thread, 0 = None
    consecutive_failures,   \* self.consecutive_failures
    time_since_last_frame,  \* time.time() - self.last_frame_time, saturating at StaleWindow
    \* ---- acquisition threads (_read_frames), one per slot
    pc,                     \* position of each thread in _read_frames
    frame,                  \* the frame a thread holds between camera.read() and put_nowait
    \* ---- the camera behind the reader
    captured,               \* frames the camera has delivered so far (frame ids 1..captured)
    \* ---- the main thread, caller of start/stop/get_latest_frame
    mpc,                    \* position of the main thread inside a reader method
    latest_frame,           \* local latest_frame of get_latest_frame, 0 = None
    result,                 \* what the last completed get_latest_frame returned
    join_elapsed,           \* seconds spent in thread.join(timeout=1.0), saturating
    \* ---- history of the run
    pushed,                 \* frames handed to the enqueue of lines 72-83, in order
    skipped,                \* of those, the frames dropped by the queue.Full branch
    newest_at_call,         \* newest frame enqueued when the current get_latest_frame began
    gets_in_call,           \* get_nowait calls that returned an item in the current call
    consumer_seen,          \* a get_latest_frame call has begun since the reader was built
    overlap,                \* start() once ran while an older thread was still alive
    puts_while_stopped      \* frames enqueued while running was False, since the last start()

rvars == <<frame_queue, running, thread, consecutive_failures, time_since_last_frame,
           pc, frame, captured, mpc, latest_frame, result, join_elapsed,
           pushed, skipped, newest_at_call, gets_in_call, consumer_seen,
           overlap, puts_while_stopped>>

VARIABLES
    \* ---- MultiModalTracker.__init__
    frame_reader,           \* self.frame_reader: the number of the ThreadedFrameReader
                            \* object, 0 = None (frames are read from self.cap directly)
    \* ---- RpiCameraVideo fields
    v_frame_queue,          \* queue.Queue(maxsize=2) of converted frames
    v_running,              \* self.running
    is_opened,              \* self.is_opened
    process,                \* self.process: "none", "running", "closed" (stdout at
                            \* end of file, not yet exited), "exited"
    \* ---- the thread running _frame_reader
    reader_thread,          \* its position, "dead" when it has ended or never started
    buffer,                 \* local bytearray: the stream offsets of the bytes it holds
    bgr_frame,              \* the converted frame held between conversion and put_nowait
    stream_pos,             \* bytes of the stream read from the pipe so far
    \* ---- the main thread, caller of read/release
    v_mpc,                  \* position of the main thread inside release()
    v_result                \* what the last read() returned

vvars == <<v_frame_queue, v_running, is_opened, process, reader_thread,
           buffer, bgr_frame, stream_pos, v_mpc, v_result>>

VARIABLES
    \* ---- MultiModalTracker.run and cleanup
    run_pc,                 \* position of the main thread in run()
    retry_count,            \* local retry_count of run()
    cleaned_up,             \* self._cleaned_up
    cap,                    \* self.cap: the number of the backend handle, 0 = None
    handles,                \* each backend handle: "unopened", "open" or "released"
    releases,               \* how many times release() was called on each handle
    consecutive_frame_failures,  \* local of _main_loop
    no_frame_count,         \* local of _main_loop, counted up to 300
    \* ---- each ThreadedFrameReader object as run() sees it
    rd_running,             \* its running flag
    rd_alive,               \* its acquisition thread is alive
    rd_camera,              \* the handle it reads from, 0 before it is built
    rd_frames,              \* frames in its queue
    rd_stale,               \* 3 seconds have passed since its last frame
    rd_stopped              \* stop() was called on it

tvars == <<run_pc, retry_count, cleaned_up, cap, handles, releases,
           consecutive_frame_failures, no_frame_count,
           rd_running, rd_alive, rd_camera, rd_frames, rd_stale, rd_stopped>>

VARIABLES
    \* ---- history of run()
    loop_entries,           \* how many times run() has called _main_loop
    reinits                 \* how many times run() has called _init_camera

hvars == <<loop_entries, reinits>>

VARIABLES
    \* ---- one call of MultiModalTracker._init_camera
    ic_pc,                  \* position in the call: "open", "warmup", "probe" of the
                            \* current variant, "failed" (all variants have failed),
                            \* "returned"; "idle" outside a call
    ic_variant,             \* the backend variant being tried, 1..5
    ic_fmt,                 \* V4L2 variant: index in formats_to_try of the format set
    ic_warmup,              \* OpenCV variant: warm-up reads done
    ic_handle,              \* per variant, its capture handle or subprocess: "none",
                            \* "open" (subprocess running) or "released" (exited)
    ic_thread,              \* the reader thread of the RpiCameraVideo is running
    ic_probe,               \* per variant, what its last test read returned:
                            \* "untested", "missing", "black" or "frame"
    camera_format,          \* self._camera_format: "unset", "BGR" or "YUYV"
    ic_result,              \* the variant whose backend is returned, 0 = None
    \* ---- history of the call
    ic_tried,               \* the variants whose open was attempted, in order
    format_at_entry         \* self._camera_format when the call began

ivars == <<ic_pc, ic_variant, ic_fmt, ic_warmup, ic_handle, ic_thread, ic_probe,
           camera_format, ic_result, ic_tried, format_at_entry>>

VARIABLES
    \* ---- GestureRecognizer fields
    gestures,               \* self.gestures: the template names in insertion order
    settings,               \* self.settings
    last_trigger_time,      \* self.last_trigger_time, 0 for a name without an entry
    \* ---- the clock and the caller of recognize_gesture
    g_now,                  \* time.time()
    g_result,               \* what the last recognize_gesture call returned
    g_sims,                 \* calculate_similarity of that call's input with each template
    g_held                  \* templates and settings are as that call found them

gvars == <<gestures, settings, last_trigger_time, g_now, g_result, g_sims, g_held>>

VARIABLES
    \* ---- GestureRecognizer: template data and the file
    gesture_data,           \* self.gestures[name]: the data stored under each name
    document,               \* the content of self.gestures_file (gestures.json)
    \* ---- the callers
    last_call,              \* the last call made: its arguments and its outcome
    published               \* the OSC messages sent by the last pass of a loop

svars == <<gesture_data, document, last_call, published>>

VARIABLES
    \* ---- two GestureRecognizer objects on one gestures.json
    stores,                 \* per object: built, and its self.gestures and self.settings
    last_save               \* the last call: the object it was made on, and how its
                            \* save_gestures went

pvars == <<stores, last_save>>

VARIABLES
    \* ---- history of the two frame readers
    last_returned,          \* the frame the last get_latest_frame that had one returned
    zero_reads              \* reads of the pipe that returned no bytes, in a row

wvars == <<last_returned, zero_reads>>

vars == <<frame_reader, rvars, vvars, tvars, hvars, ivars, gvars, svars, pvars, wvars>>

\* what the actions of the ThreadedFrameReader leave alone, and those of the
\* RpiCameraVideo
outside_reader == <<frame_reader, vvars, tvars, hvars, ivars, gvars, svars, pvars, wvars>>
outside_video == <<frame_reader, rvars, tvars, hvars, ivars, gvars, svars, pvars, wvars>>
outside_objects == <<rvars, vvars, ivars, gvars, svars, pvars, wvars>>
outside_init == <<frame_reader, rvars, vvars, tvars, hvars, gvars, svars, pvars, wvars>>
outside_gesture == <<frame_reader, rvars, vvars, tvars, hvars, ivars, svars, pvars, wvars>>
outside_store == <<frame_reader, rvars, vvars, tvars, hvars, ivars, pvars, wvars>>
outside_shared == <<frame_reader, rvars, vvars, tvars, hvars, ivars, gvars, wvars>>
\* what a return of get_latest_frame and a read of the pipe leave alone
outside_get_latest_frame ==
    <<frame_reader, vvars, tvars, hvars, ivars, gvars, svars, pvars, zero_reads>>
outside_pipe_read ==
    <<frame_reader, rvars, tvars, hvars, ivars, gvars, svars, pvars, last_returned>>

\* zero-byte reads in a row that count as sustained
SustainedReads == 2

\* the value get_latest_frame returns when it has no frame: (False, None)
NoFrame == [ret |-> FALSE, frame |-> 0]

Alive(t) == pc[t] # "dead"
AliveThreads == {t \in Threads : Alive(t)}
\* self.thread and self.thread.is_alive()
ThreadIsAlive == thread # 0 /\ Alive(thread)

Newest(q) == IF Len(q) = 0 THEN 0 ELSE q[Len(q)]

\* queue.Queue(maxsize=buffer_size): full(), and what makes put_nowait raise queue.Full
QueueFull_unbounded(q) == FALSE
QueueFull(q) == Len(q) >= buffer_size

\* the frames of pushed that went into the queue
Enqueued == SelectSeq(pushed, LAMBDA f : f \notin skipped)

(***************************************************************************)
(* ThreadedFrameReader.__init__                                            *)
(***************************************************************************)
InitReader ==
    /\ frame_queue = << >>
    /\ running = FALSE
    /\ thread = 0
    /\ consecutive_failures = 0
    /\ time_since_last_frame = 0
    /\ pc = [t \in Threads |-> "dead"]
    /\ frame = [t \in Threads |-> 0]
    /\ captured = 0
    /\ mpc = "idle"
    /\ latest_frame = 0
    /\ result = NoFrame
    /\ join_elapsed = 0
    /\ pushed = << >>
    /\ skipped = {}
    /\ newest_at_call = 0
    /\ gets_in_call = 0
    /\ consumer_seen = FALSE
    /\ overlap = FALSE
    /\ puts_while_stopped = 0
    /\ last_returned = 0

(***************************************************************************)
(* ThreadedFrameReader.start / stop, called by the main thread.            *)
(***************************************************************************)
\* the slot the next threading.Thread object takes
FreeSlot == CHOOSE t \in Threads : ~Alive(t) /\ \A u \in Threads : u < t => Alive(u)

start ==
    /\ frame_reader # 0
    /\ mpc = "idle"
    /\ IF running
       THEN UNCHANGED rvars                                  \* if self.running: return
       ELSE /\ \E t \in Threads : ~Alive(t)
            /\ running' = TRUE
            /\ thread' = FreeSlot
            /\ pc' = [pc EXCEPT ![FreeSlot] = "top"]
            /\ overlap' = (overlap \/ AliveThreads # {})
            /\ puts_while_stopped' = 0
            /\ UNCHANGED <<frame_queue, consecutive_failures, time_since_last_frame,
                           frame, captured, mpc, latest_frame, result, join_elapsed,
                           pushed, skipped, newest_at_call, gets_in_call, consumer_seen>>
    /\ UNCHANGED outside_reader

\* self.running = False; if self.thread and self.thread.is_alive(): join(timeout=1.0)
stop ==
    /\ frame_reader # 0
    /\ mpc = "idle"
    /\ running' = FALSE
    /\ mpc' = IF ThreadIsAlive THEN "join" ELSE "idle"
    /\ join_elapsed' = 0
    /\ UNCHANGED <<frame_queue, thread, consecutive_failures, time_since_last_frame,
                   pc, frame, captured, latest_frame, result,
                   pushed, skipped, newest_at_call, gets_in_call, consumer_seen,
                   overlap, puts_while_stopped>>
    /\ UNCHANGED outside_reader

JoinExpired_no_timeout == FALSE

\* the timeout of self.thread.join(timeout=1.0) has run out
JoinExpired == join_elapsed >= JoinTimeout

\* join returns: the thread has ended, or the timeout has run out
stop_join_returns ==
    /\ frame_reader # 0
    /\ mpc = "join"
    /\ ~Alive(thread) \/ JoinExpired
    /\ mpc' = "idle"
    /\ UNCHANGED <<frame_queue, running, thread, consecutive_failures,
                   time_since_last_frame, pc, frame, captured, latest_frame, result,
                   join_elapsed, pushed, skipped, newest_at_call, gets_in_call,
                   consumer_seen, overlap, puts_while_stopped>>
    /\ UNCHANGED outside_reader

(***************************************************************************)
(* ThreadedFrameReader._read_frames, one action per shared-state access.   *)
(***************************************************************************)
\* while self.running:
read_frames_top(t) ==
    /\ frame_reader # 0
    /\ pc[t] = "top"
    /\ pc' = [pc EXCEPT ![t] = IF running THEN "read" ELSE "exit"]
    /\ UNCHANGED <<frame_queue, running, thread, consecutive_failures,
                   time_since_last_frame, frame, captured, mpc, latest_frame, result,
                   join_elapsed, pushed, skipped, newest_at_call, gets_in_call,
                   consumer_seen, overlap, puts_while_stopped>>
    /\ UNCHANGED outside_reader

\* ret, frame = self.camera.read() returns a frame: lines 64-66
read_frames_ok(t) ==
    /\ frame_reader # 0
    /\ pc[t] = "read"
    /\ captured < MaxFrames
    /\ captured' = captured + 1
    /\ frame' = [frame EXCEPT ![t] = captured + 1]
    /\ consecutive_failures' = 0
    /\ pc' = [pc EXCEPT ![t] = "full"]
    /\ UNCHANGED <<frame_queue, running, thread, time_since_last_frame, mpc,
                   latest_frame, result, join_elapsed, pushed, skipped, newest_at_call,
                   gets_in_call, consumer_seen, overlap, puts_while_stopped>>
    /\ UNCHANGED outside_reader

\* the camera of a run that never ends: it always has a next frame; the frames
\* past MaxFrames share the number MaxFrames
read_frames_ok_unbounded(t) ==
    /\ frame_reader # 0
    /\ pc[t] = "read"
    /\ captured' = Min(captured + 1, MaxFrames)
    /\ frame' = [frame EXCEPT ![t] = Min(captured + 1, MaxFrames)]
    /\ consecutive_failures' = 0
    /\ pc' = [pc EXCEPT ![t] = "full"]
    /\ UNCHANGED <<frame_queue, running, thread, time_since_last_frame, mpc,
                   latest_frame, result, join_elapsed, pushed, skipped, newest_at_call,
                   gets_in_call, consumer_seen, overlap, puts_while_stopped>>
    /\ UNCHANGED outside_reader

read_frames_fail_above_max(t) ==
    /\ frame_reader # 0
    /\ pc[t] = "read"
    /\ consecutive_failures < MaxFailCount
    /\ consecutive_failures' = consecutive_failures + 1
    /\ pc' = [pc EXCEPT ![t] = IF consecutive_failures + 1 > max_failures
                                THEN "exit" ELSE "top"]
    /\ UNCHANGED <<frame_queue, running, thread, time_since_last_frame, frame, captured,
                   mpc, latest_frame, result, join_elapsed, pushed, skipped,
                   newest_at_call, gets_in_call, consumer_seen, overlap,
                   puts_while_stopped>>
    /\ UNCHANGED outside_reader

\* camera.read() returns (False, None) or raises: lines 85-90 and 92-97
read_frames_fail(t) ==
    /\ frame_reader # 0
    /\ pc[t] = "read"
    /\ consecutive_failures < MaxFailCount
    /\ consecutive_failures' = consecutive_failures + 1
    /\ pc' = [pc EXCEPT ![t] = IF consecutive_failures + 1 >= max_failures
                                THEN "exit" ELSE "top"]
    /\ UNCHANGED <<frame_queue, running, thread, time_since_last_frame, frame, captured,
                   mpc, latest_frame, result, join_elapsed, pushed, skipped,
                   newest_at_call, gets_in_call, consumer_seen, overlap,
                   puts_while_stopped>>
    /\ UNCHANGED outside_reader

\* if self.frame_queue.full():
read_frames_full_never_evicts(t) ==
    /\ frame_reader # 0
    /\ pc[t] = "full"
    /\ pc' = [pc EXCEPT ![t] = "put"]
    /\ UNCHANGED <<frame_queue, running, thread, consecutive_failures,
                   time_since_last_frame, frame, captured, mpc, latest_frame, result,
                   join_elapsed, pushed, skipped, newest_at_call, gets_in_call,
                   consumer_seen, overlap, puts_while_stopped>>
    /\ UNCHANGED outside_reader

read_frames_full(t) ==
    /\ frame_reader # 0
    /\ pc[t] = "full"
    /\ pc' = [pc EXCEPT ![t] = IF QueueFull(frame_queue) THEN "evict" ELSE "put"]
    /\ UNCHANGED <<frame_queue, running, thread, consecutive_failures,
                   time_since_last_frame, frame, captured, mpc, latest_frame, result,
                   join_elapsed, pushed, skipped, newest_at_call, gets_in_call,
                   consumer_seen, overlap, puts_while_stopped>>
    /\ UNCHANGED outside_reader

\* self.frame_queue.get_nowait(), queue.Empty passed over
read_frames_evict(t) ==
    /\ frame_reader # 0
    /\ pc[t] = "evict"
    /\ frame_queue' = IF Len(frame_queue) > 0 THEN Tail(frame_queue) ELSE frame_queue
    /\ pc' = [pc EXCEPT ![t] = "put"]
    /\ UNCHANGED <<running, thread, consecutive_failures, time_since_last_frame,
                   frame, captured, mpc, latest_frame, result, join_elapsed, pushed,
                   skipped, newest_at_call, gets_in_call, consumer_seen, overlap,
                   puts_while_stopped>>
    /\ UNCHANGED outside_reader

\* self.frame_queue.put_nowait(...); self.last_frame_time = time.time()
\* and on queue.Full the frame is skipped
read_frames_put(t) ==
    /\ frame_reader # 0
    /\ pc[t] = "put"
    /\ IF ~QueueFull(frame_queue)
       THEN /\ frame_queue' = Append(frame_queue, frame[t])
            /\ time_since_last_frame' = 0
            /\ puts_while_stopped' = IF running THEN puts_while_stopped
                                     ELSE Min(puts_while_stopped + 1, MaxThreads + 1)
            /\ UNCHANGED skipped
       ELSE /\ skipped' = skipped \cup {frame[t]}
            /\ UNCHANGED <<frame_queue, time_since_last_frame, puts_while_stopped>>
    /\ pushed' = IF Len(pushed) < MaxFrames THEN Append(pushed, frame[t]) ELSE pushed
    /\ frame' = [frame EXCEPT ![t] = 0]
    /\ pc' = [pc EXCEPT ![t] = "top"]
    /\ UNCHANGED <<running, thread, consecutive_failures, captured, mpc, latest_frame,
                   result, join_elapsed, newest_at_call, gets_in_call, consumer_seen,
                   overlap>>
    /\ UNCHANGED outside_reader

\* line 100: self.running = False, and the thread ends
read_frames_exit(t) ==
    /\ frame_reader # 0
    /\ pc[t] = "exit"
    /\ running' = FALSE
    /\ pc' = [pc EXCEPT ![t] = "dead"]
    /\ UNCHANGED <<frame_queue, thread, consecutive_failures, time_since_last_frame,
                   frame, captured, mpc, latest_frame, result, join_elapsed, pushed,
                   skipped, newest_at_call, gets_in_call, consumer_seen, overlap,
                   puts_while_stopped>>
    /\ UNCHANGED outside_reader

read_frames(t) ==
    \/ read_frames_top(t)
    \/ read_frames_ok(t)
    \/ read_frames_fail(t)
    \/ read_frames_full(t)
    \/ read_frames_evict(t)
    \/ read_frames_put(t)
    \/ read_frames_exit(t)

(***************************************************************************)
(* ThreadedFrameReader.get_latest_frame, called by the main thread.        *)
(***************************************************************************)
\* the call begins: latest_frame = None
get_latest_frame_begin ==
    /\ frame_reader # 0
    /\ mpc = "idle"
    /\ mpc' = "drain"
    /\ latest_frame' = 0
    /\ newest_at_call' = Newest(Enqueued)
    /\ gets_in_call' = 0
    /\ consumer_seen' = TRUE
    /\ UNCHANGED <<frame_queue, running, thread, consecutive_failures,
                   time_since_last_frame, pc, frame, captured, result, join_elapsed,
                   pushed, skipped, overlap, puts_while_stopped>>
    /\ UNCHANGED outside_reader

\* the drain loop is left (lines 113-124): with a frame the call returns it,
\* without one it goes on to the blocking get
AfterDrain ==
    IF latest_frame = 0
    THEN mpc' = "wait" /\ UNCHANGED <<result, last_returned>>
    ELSE /\ mpc' = "idle"
         /\ result' = [ret |-> TRUE, frame |-> latest_frame]
         /\ last_returned' = latest_frame

\* while not self.frame_queue.empty():
get_latest_frame_empty ==
    /\ frame_reader # 0
    /\ mpc = "drain"
    /\ IF Len(frame_queue) > 0
       THEN mpc' = "dget" /\ UNCHANGED <<result, last_returned>>
       ELSE AfterDrain
    /\ UNCHANGED <<frame_queue, running, thread, consecutive_failures,
                   time_since_last_frame, pc, frame, captured, latest_frame,
                   join_elapsed, pushed, skipped, newest_at_call, gets_in_call,
                   consumer_seen, overlap, puts_while_stopped>>
    /\ UNCHANGED outside_get_latest_frame

\* latest_frame = self.frame_queue.get_nowait(); on queue.Empty: break
get_latest_frame_get_nowait ==
    /\ frame_reader # 0
    /\ mpc = "dget"
    /\ IF Len(frame_queue) > 0
       THEN /\ latest_frame' = Head(frame_queue)
            /\ frame_queue' = Tail(frame_queue)
            /\ gets_in_call' = Min(gets_in_call + 1, MaxFrames)
            /\ mpc' = "drain"
            /\ UNCHANGED <<result, last_returned>>
       ELSE /\ AfterDrain
            /\ UNCHANGED <<latest_frame, frame_queue, gets_in_call>>
    /\ UNCHANGED <<running, thread, consecutive_failures, time_since_last_frame, pc,
                   frame, captured, join_elapsed, pushed, skipped, newest_at_call,
                   consumer_seen, overlap, puts_while_stopped>>
    /\ UNCHANGED outside_get_latest_frame

\* latest_frame = self.frame_queue.get(timeout=timeout): an item arrives in time,
\* or queue.Empty is raised at the timeout and the call returns (False, None)
get_latest_frame_get_peeks ==
    /\ frame_reader # 0
    /\ mpc = "wait"
    /\ IF Len(frame_queue) > 0
       THEN /\ result' = [ret |-> TRUE, frame |-> Head(frame_queue)]
            /\ latest_frame' = Head(frame_queue)
            /\ last_returned' = Head(frame_queue)
            /\ UNCHANGED frame_queue
       ELSE /\ result' = NoFrame
            /\ UNCHANGED <<latest_frame, frame_queue, last_returned>>
    /\ mpc' = "idle"
    /\ UNCHANGED <<running, thread, consecutive_failures, time_since_last_frame, pc,
                   frame, captured, join_elapsed, pushed, skipped, newest_at_call,
                   gets_in_call, consumer_seen, overlap, puts_while_stopped>>
    /\ UNCHANGED outside_get_latest_frame

get_latest_frame_get ==
    /\ frame_reader # 0
    /\ mpc = "wait"
    /\ IF Len(frame_queue) > 0
       THEN /\ result' = [ret |-> TRUE, frame |-> Head(frame_queue)]
            /\ latest_frame' = Head(frame_queue)
            /\ last_returned' = Head(frame_queue)
            /\ frame_queue' = Tail(frame_queue)
       ELSE /\ result' = NoFrame
            /\ UNCHANGED <<latest_frame, frame_queue, last_returned>>
    /\ mpc' = "idle"
    /\ UNCHANGED <<running, thread, consecutive_failures, time_since_last_frame, pc,
                   frame, captured, join_elapsed, pushed, skipped, newest_at_call,
                   gets_in_call, consumer_seen, overlap, puts_while_stopped>>
    /\ UNCHANGED outside_get_latest_frame

(***************************************************************************)
(* ThreadedFrameReader.is_healthy, a read of the reader's fields.          *)
(***************************************************************************)
is_healthy_ignores_running ==
    time_since_last_frame < StaleWindow /\ consecutive_failures < max_failures

is_healthy ==
    IF ~running THEN FALSE
    ELSE time_since_last_frame < StaleWindow /\ consecutive_failures < max_failures

(***************************************************************************)
(* One second passes. A timed wait never outlasts its timeout: time stands *)
(* still while the main thread is in get(timeout=0.1), and while it is in  *)
(* join(timeout=1.0) with the timeout run out.                             *)
(***************************************************************************)
Tick ==
    /\ frame_reader # 0
    /\ mpc # "wait"
    /\ ~(mpc = "join" /\ JoinExpired)
    /\ time_since_last_frame' = Min(time_since_last_frame + 1, StaleWindow)
    /\ join_elapsed' = IF mpc = "join" THEN Min(join_elapsed + 1, JoinTimeout + 1)
                       ELSE join_elapsed
    /\ UNCHANGED <<frame_queue, running, thread, consecutive_failures, pc, frame,
                   captured, mpc, latest_frame, result, pushed, skipped, newest_at_call,
                   gets_in_call, consumer_seen, overlap, puts_while_stopped>>
    /\ UNCHANGED outside_reader

(***************************************************************************)
(* RpiCameraVideo (rpicam_video.py): the planar-video backend.             *)
(***************************************************************************)
\* yuv_frame_size = self.width * self.height * 3 // 2
yuv_frame_size == (Width * Height * 3) \div 2
\* bytes of the stream in one behaviour
StreamLen == MaxFrames * yuv_frame_size

SubSeqFrom_skips(q, a) == SubSeq(q, a + 1, Len(q))
SubSeqFrom(q, a) == SubSeq(q, a, Len(q))
\* the stream offsets n..n+k-1: a chunk of k bytes read at offset n
Chunk(n, k) == [i \in 1..k |-> n + i - 1]

None == << >>

\* _yuv420_to_bgr: the Y plane, then U and V reshaped to (height//2, width//2);
\* a plane of another size makes reshape raise, and the frame is None
yuv420_to_bgr(yuv_data) ==
    LET y_size == Width * Height
        uv_size == y_size \div 4
        plane == (Height \div 2) * (Width \div 2)
    IN IF uv_size = plane /\ Len(yuv_data) - y_size - uv_size = plane
       THEN yuv_data
       ELSE None

\* RpiCameraVideo.__init__, without open()
InitVideoClosed ==
    /\ v_frame_queue = << >>
    /\ v_running = FALSE
    /\ is_opened = FALSE
    /\ process = "none"
    /\ reader_thread = "dead"
    /\ buffer = << >>
    /\ bgr_frame = None
    /\ stream_pos = 0
    /\ v_mpc = "idle"
    /\ v_result = NoFrame
    /\ zero_reads = 0

\* RpiCameraVideo after open() returned True: lines 39-60
InitVideoOpened ==
    /\ v_frame_queue = << >>
    /\ v_running = TRUE
    /\ is_opened = TRUE
    /\ process = "running"
    /\ reader_thread = "top"
    /\ buffer = << >>
    /\ bgr_frame = None
    /\ stream_pos = 0
    /\ v_mpc = "idle"
    /\ v_result = NoFrame
    /\ zero_reads = 0

\* while self.running and self.process and self.process.poll() is None:
frame_reader_top ==
    /\ frame_reader = 0
    /\ reader_thread = "top"
    /\ reader_thread' = IF v_running /\ process \in {"running", "closed"}
                        THEN "read" ELSE "dead"
    /\ UNCHANGED <<v_frame_queue, v_running, is_opened, process, buffer,
                   bgr_frame, stream_pos, v_mpc, v_result>>
    /\ UNCHANGED outside_video

\* chunk = self.process.stdout.read(8192) returns k > 0 bytes; buffer.extend(chunk)
frame_reader_chunk ==
    /\ frame_reader = 0
    /\ reader_thread = "read"
    /\ process = "running"
    /\ \E k \in 1..MaxChunk :
        /\ stream_pos + k <= StreamLen
        /\ buffer' = buffer \o Chunk(stream_pos, k)
        /\ stream_pos' = stream_pos + k
    /\ reader_thread' = "slice"
    /\ zero_reads' = 0
    /\ UNCHANGED <<v_frame_queue, v_running, is_opened, process,
                   bgr_frame, v_mpc, v_result>>
    /\ UNCHANGED outside_pipe_read

\* the read returns no bytes (end of file): sleep 1 ms and continue;
\* with self.process None the read raises and the loop breaks (lines 117-119)
frame_reader_no_chunk ==
    /\ frame_reader = 0
    /\ reader_thread = "read"
    /\ process # "running"
    /\ reader_thread' = IF process = "none" THEN "dead" ELSE "top"
    /\ zero_reads' = IF process = "none" THEN zero_reads
                     ELSE Min(zero_reads + 1, SustainedReads)
    /\ UNCHANGED <<v_frame_queue, v_running, is_opened, process, buffer,
                   bgr_frame, stream_pos, v_mpc, v_result>>
    /\ UNCHANGED outside_pipe_read

\* while len(buffer) >= yuv_frame_size: slice one frame off and convert it
frame_reader_slice ==
    /\ frame_reader = 0
    /\ reader_thread = "slice"
    /\ IF Len(buffer) >= yuv_frame_size
       THEN /\ buffer' = SubSeqFrom(buffer, yuv_frame_size + 1)
            /\ bgr_frame' = yuv420_to_bgr(SubSeq(buffer, 1, yuv_frame_size))
            /\ reader_thread' = IF bgr_frame' # None THEN "full" ELSE "slice"
       ELSE /\ reader_thread' = "top"
            /\ UNCHANGED <<buffer, bgr_frame>>
    /\ UNCHANGED <<v_frame_queue, v_running, is_opened, process,
                   stream_pos, v_mpc, v_result>>
    /\ UNCHANGED outside_video

\* if self.frame_queue.full():
frame_reader_full ==
    /\ frame_reader = 0
    /\ reader_thread = "full"
    /\ reader_thread' = IF Len(v_frame_queue) >= video_maxsize THEN "evict" ELSE "put"
    /\ UNCHANGED <<v_frame_queue, v_running, is_opened, process, buffer,
                   bgr_frame, stream_pos, v_mpc, v_result>>
    /\ UNCHANGED outside_video

\* self.frame_queue.get_nowait(), queue.Empty passed over
frame_reader_evict ==
    /\ frame_reader = 0
    /\ reader_thread = "evict"
    /\ v_frame_queue' = IF Len(v_frame_queue) > 0 THEN Tail(v_frame_queue)
                        ELSE v_frame_queue
    /\ reader_thread' = "put"
    /\ UNCHANGED <<v_running, is_opened, process, buffer, bgr_frame,
                   stream_pos, v_mpc, v_result>>
    /\ UNCHANGED outside_video

\* self.frame_queue.put_nowait(bgr_frame), queue.Full passed over
frame_reader_put ==
    /\ frame_reader = 0
    /\ reader_thread = "put"
    /\ v_frame_queue' = IF Len(v_frame_queue) < video_maxsize
                        THEN Append(v_frame_queue, bgr_frame) ELSE v_frame_queue
    /\ bgr_frame' = None
    /\ reader_thread' = "slice"
    /\ UNCHANGED <<v_running, is_opened, process, buffer, stream_pos,
                   v_mpc, v_result>>
    /\ UNCHANGED outside_video

\* the rpicam-vid process closes its output, then exits
process_ends ==
    /\ frame_reader = 0
    /\ process \in {"running", "closed"}
    /\ process' = IF process = "running" THEN "closed" ELSE "exited"
    /\ UNCHANGED <<v_frame_queue, v_running, is_opened, reader_thread,
                   buffer, bgr_frame, stream_pos, v_mpc, v_result>>
    /\ UNCHANGED outside_video

\* RpiCameraVideo.read: frame_queue.get(timeout=0.1)
video_read ==
    /\ frame_reader = 0
    /\ v_mpc = "idle"
    /\ IF is_opened /\ Len(v_frame_queue) > 0
       THEN /\ v_result' = [ret |-> TRUE, frame |-> Head(v_frame_queue)]
            /\ v_frame_queue' = Tail(v_frame_queue)
       ELSE /\ v_result' = NoFrame
            /\ UNCHANGED v_frame_queue
    /\ UNCHANGED <<v_running, is_opened, process, reader_thread, buffer,
                   bgr_frame, stream_pos, v_mpc>>
    /\ UNCHANGED outside_video

\* RpiCameraVideo.release: the flags, then reader_thread.join(timeout=2)
video_release ==
    /\ frame_reader = 0
    /\ v_mpc = "idle"
    /\ is_opened' = FALSE
    /\ v_running' = FALSE
    /\ v_mpc' = IF reader_thread # "dead" THEN "join" ELSE "terminate"
    /\ UNCHANGED <<v_frame_queue, process, reader_thread, buffer,
                   bgr_frame, stream_pos, v_result>>
    /\ UNCHANGED outside_video

\* join returns, the thread ended or the 2 s ran out
video_release_join ==
    /\ frame_reader = 0
    /\ v_mpc = "join"
    /\ v_mpc' = "terminate"
    /\ UNCHANGED <<v_frame_queue, v_running, is_opened, process,
                   reader_thread, buffer, bgr_frame, stream_pos, v_result>>
    /\ UNCHANGED outside_video

\* self.process.terminate(); wait; self.process = None
video_release_terminate ==
    /\ frame_reader = 0
    /\ v_mpc = "terminate"
    /\ process' = "none"
    /\ v_mpc' = "idle"
    /\ UNCHANGED <<v_frame_queue, v_running, is_opened, reader_thread,
                   buffer, bgr_frame, stream_pos, v_result>>
    /\ UNCHANGED outside_video

frame_reader_thread ==
    \/ frame_reader_top
    \/ frame_reader_chunk
    \/ frame_reader_no_chunk
    \/ frame_reader_slice
    \/ frame_reader_full
    \/ frame_reader_evict
    \/ frame_reader_put

(***************************************************************************)
(* GestureRecognizer (gesture_recognizer.py): recognize_gesture with the    *)
(* cooldown, and the operations on templates and settings.                 *)
(***************************************************************************)
\* the names templates are stored under
Names == {"fist", "palm"}
SimLevels == 0..MaxSim
\* time.time() at the start: seconds since 1970, beyond every cooldown_time
Epoch == MaxCooldown
Times == Epoch..(Epoch + MaxTime)

AllSettings == [similarity_threshold : SimLevels,
                recognition_enabled : BOOLEAN,
                cooldown_time : 0..MaxCooldown]

\* recognize_gesture returns None
NoMatch == [name |-> "None", similarity |-> 0]

Stored == {gestures[i] : i \in 1..Len(gestures)}

\* similarity >= self.settings["similarity_threshold"]
AtOrAboveThreshold_any(similarity) == TRUE
AtOrAboveThreshold(similarity) == similarity >= settings.similarity_threshold

\* current_time - self.last_trigger_time.get(gesture_name, 0) >= cooldown_time
OutOfCooldown_always(gesture_name) == TRUE
OutOfCooldown(gesture_name) ==
    g_now - last_trigger_time[gesture_name] >= settings.cooldown_time

\* best_match and best_similarity after a candidate was refused by the cooldown
\* check: both are left as they were
AfterCooldownRefusal_raises(best, similarity) == [best EXCEPT !.similarity = similarity]
AfterCooldownRefusal(best, similarity) == best

\* the loop of recognize_gesture from the i-th template on; best holds best_match
\* (its name) and best_similarity
RECURSIVE ScanTemplates(_, _, _)
ScanTemplates(i, best, sims) ==
    IF i > Len(gestures) THEN best
    ELSE LET gesture_name == gestures[i]
             similarity == sims[gesture_name]
         IN IF similarity > best.similarity /\ AtOrAboveThreshold(similarity)
            THEN IF OutOfCooldown(gesture_name)
                 THEN ScanTemplates(i + 1, [name |-> gesture_name,
                                            similarity |-> similarity], sims)
                 ELSE ScanTemplates(i + 1, AfterCooldownRefusal(best, similarity), sims)
            ELSE ScanTemplates(i + 1, best, sims)

\* not self.settings["recognition_enabled"] or not self.gestures, line 95
RecognitionOff_only_empty == gestures = << >>
RecognitionOff == ~settings.recognition_enabled \/ gestures = << >>

\* what recognize_gesture returns for an input with similarities sims
Recognized(sims) ==
    IF RecognitionOff
    THEN NoMatch
    ELSE LET best == ScanTemplates(1, NoMatch, sims)
         IN IF best.name = "None" THEN NoMatch ELSE best

\* self.last_trigger_time after the call, lines 118-119
TriggerTimes_all(best_match) ==
    IF best_match = NoMatch THEN last_trigger_time
    ELSE [n \in DOMAIN last_trigger_time |-> g_now]
TriggerTimes(best_match) ==
    IF best_match = NoMatch THEN last_trigger_time
    ELSE [last_trigger_time EXCEPT ![best_match.name] = g_now]

InitGesture ==
    /\ gestures = << >>
    /\ settings \in AllSettings
    /\ last_trigger_time = [n \in Names |-> 0]
    /\ g_now = Epoch
    /\ g_result = NoMatch
    /\ g_sims = [n \in Names |-> 0]
    /\ g_held = FALSE

\* no GestureRecognizer is in use
InitGestureIdle ==
    /\ gestures = << >>
    /\ settings = [similarity_threshold |-> MaxSim, recognition_enabled |-> TRUE,
                   cooldown_time |-> 0]
    /\ last_trigger_time = [n \in Names |-> 0]
    /\ g_now = Epoch
    /\ g_result = NoMatch
    /\ g_sims = [n \in Names |-> 0]
    /\ g_held = FALSE

\* recognize_gesture(landmarks), lines 93-121; the input is given by its
\* similarity to each name's template
recognize_gesture ==
    /\ \E sims \in [Names -> SimLevels] :
          LET best_match == Recognized(sims)
          IN /\ g_sims' = sims
             /\ g_result' = best_match
             /\ last_trigger_time' = TriggerTimes(best_match)
    /\ g_held' = TRUE
    /\ UNCHANGED <<gestures, settings, g_now>>
    /\ UNCHANGED outside_gesture

\* add_gesture(name, ...), lines 123-138: a new name is added at the end, an
\* existing name keeps its place
add_gesture(name) ==
    /\ gestures' = IF name \in Stored THEN gestures ELSE Append(gestures, name)
    /\ g_held' = FALSE
    /\ UNCHANGED <<settings, last_trigger_time, g_now, g_result, g_sims>>
    /\ UNCHANGED outside_gesture

\* remove_gesture(name), lines 140-147
remove_gesture(name) ==
    /\ name \in Stored
    /\ gestures' = SelectSeq(gestures, LAMBDA n : n # name)
    /\ g_held' = FALSE
    /\ UNCHANGED <<settings, last_trigger_time, g_now, g_result, g_sims>>
    /\ UNCHANGED outside_gesture

\* update_settings(**kwargs), lines 162-168
update_settings(new) ==
    /\ new # settings
    /\ settings' = new
    /\ g_held' = FALSE
    /\ UNCHANGED <<gestures, last_trigger_time, g_now, g_result, g_sims>>
    /\ UNCHANGED outside_gesture

\* the clock advances
clock_tick ==
    /\ g_now < Epoch + MaxTime
    /\ g_now' = g_now + 1
    /\ UNCHANGED <<gestures, settings, last_trigger_time, g_result, g_sims, g_held>>
    /\ UNCHANGED outside_gesture

NextGesture ==
    \/ recognize_gesture
    \/ \E name \in Names : add_gesture(name)
    \/ \E name \in Names : remove_gesture(name)
    \/ \E new \in AllSettings : update_settings(new)
    \/ clock_tick

(***************************************************************************)
(* GestureRecognizer with the data of its templates and the gestures.json  *)
(* document (gesture_recognizer.py 10-45 and 123-167).                      *)
(***************************************************************************)
\* len(landmarks) != 42: 21 points x 2 coordinates
LandmarkCount == 42
\* points[9], the palm centre, and centered_points[12], the middle finger tip
PalmCenter == 9
MiddleFingerTip == 12
\* "cooldown_time": 0.5, the clock counting in steps of that length
DefaultCooldown == 1

\* the names add_gesture and remove_gesture are called with
StoreNames == Names \cup {""}

\* a landmark vector of len values whose point k lies at (dx * k, dy * k)
Hand(dx, dy, len) ==
    [i \in 1..len |-> IF i % 2 = 1 THEN dx * ((i - 1) \div 2)
                                   ELSE dy * ((i - 1) \div 2)]
OpenHand == Hand(1, 0, LandmarkCount)
SideHand == Hand(0, 1, LandmarkCount)
\* every point at the same place
FlatHand == Hand(0, 0, LandmarkCount)
\* one point missing, one point too many
ShortHand == Hand(1, 0, LandmarkCount - 2)
LongHand == Hand(1, 0, LandmarkCount + 2)
\* no hand in the frame
NoHand == << >>

\* the settings __init__ starts from, lines 13-17; 0.85 is the lowest level at
\* or above it
DefaultSettings ==
    [similarity_threshold |-> (85 * MaxSim + 99) \div 100,
     recognition_enabled |-> TRUE,
     cooldown_time |-> DefaultCooldown]

\* {} and the operations on a dict: d[key] = value, del d[key], d.update(other)
EmptyDict == [k \in {} |-> 0]
Put(dict, key, value) ==
    [k \in DOMAIN dict \cup {key} |-> IF k = key THEN value ELSE dict[k]]
Without_all(dict, key) == EmptyDict
Without(dict, key) == [k \in DOMAIN dict \ {key} |-> dict[k]]
dict_update_ignored(dict, other) == dict
dict_update(dict, other) ==
    [k \in DOMAIN dict \cup DOMAIN other |->
        IF k \in DOMAIN other THEN other[k] ELSE dict[k]]

\* the keys of a dict in insertion order after d[key] = value and del d[key]
OrderAfterPut(order, key) ==
    IF \E i \in 1..Len(order) : order[i] = key THEN order ELSE Append(order, key)
OrderWithout(order, key) == SelectSeq(order, LAMBDA n : n # key)

\* len(landmarks) != 42 in add_gesture, line 126
WrongLength_never(landmarks) == FALSE
WrongLength(landmarks) == Len(landmarks) # LandmarkCount

\* the value add_gesture stores under name, lines 129-135
NewTemplate_centered(name, landmarks, description, trigger_action, trigger_data) ==
    [landmarks |-> [i \in 1..Len(landmarks) |->
                       landmarks[i] - landmarks[2 * PalmCenter + 2 - (i % 2)]],
     created_at |-> g_now,
     description |-> description,
     trigger_action |-> trigger_action,
     trigger_data |-> IF trigger_data = "" THEN "/gesture/" \o name ELSE trigger_data]
NewTemplate(name, landmarks, description, trigger_action, trigger_data) ==
    [landmarks |-> landmarks,
     created_at |-> g_now,
     description |-> description,
     trigger_action |-> trigger_action,
     trigger_data |-> IF trigger_data = "" THEN "/gesture/" \o name ELSE trigger_data]

\* the file after json.dump of {"hand_gestures": ..., "settings": ...}, lines
\* 36-42; a file that does not exist; a file that is not JSON
json_dump(order, hand_gestures, the_settings) ==
    [kind |-> "json", order |-> order, hand_gestures |-> hand_gestures,
     settings |-> the_settings]
MissingDocument ==
    [kind |-> "missing", order |-> << >>, hand_gestures |-> EmptyDict,
     settings |-> EmptyDict]
BrokenDocument ==
    [kind |-> "broken", order |-> << >>, hand_gestures |-> EmptyDict,
     settings |-> EmptyDict]

\* self.gestures and self.settings after load_gestures, lines 21-32, from what
\* they were before
\* line 32 left out: what line 27 assigned stays after a failure
load_gestures_keeps_assigned(doc, order, hand_gestures, the_settings) ==
    IF doc.kind = "missing"
    THEN [order |-> order, hand_gestures |-> hand_gestures, settings |-> the_settings]
    ELSE IF doc.kind = "broken"
    THEN [order |-> order, hand_gestures |-> hand_gestures, settings |-> the_settings]
    ELSE IF doc.kind = "json_settings_list"
    THEN [order |-> doc.order, hand_gestures |-> doc.hand_gestures,
          settings |-> the_settings]
    ELSE [order |-> doc.order, hand_gestures |-> doc.hand_gestures,
          settings |-> dict_update(the_settings, doc.settings)]
\* - no file: nothing is read (line 23);
\* - not JSON: json.load raises (line 25), the except branch empties the templates;
\* - JSON whose "settings" is a list: line 27 assigns the templates, settings.update
\*   raises on line 28, and the except branch empties the templates (line 32);
\* - JSON otherwise: lines 27-28
load_gestures(doc, order, hand_gestures, the_settings) ==
    IF doc.kind = "missing"
    THEN [order |-> order, hand_gestures |-> hand_gestures, settings |-> the_settings]
    ELSE IF doc.kind \in {"broken", "json_settings_list"}
    THEN [order |-> << >>, hand_gestures |-> EmptyDict, settings |-> the_settings]
    ELSE [order |-> doc.order, hand_gestures |-> doc.hand_gestures,
          settings |-> dict_update(the_settings, doc.settings)]

\* a template as an earlier run saved it
SavedTemplate(name, landmarks) ==
    [landmarks |-> landmarks, created_at |-> 0, description |-> "",
     trigger_action |-> "send_message", trigger_data |-> "/gesture/" \o name]

\* a document edited by hand: a template with a point missing
ShortTemplateDocument ==
    [kind |-> "json", order |-> <<"palm">>,
     hand_gestures |-> [k \in {"palm"} |-> SavedTemplate(k, ShortHand)],
     settings |-> DefaultSettings]
\* a document edited by hand: a template, and "settings": [1]
SettingsListDocument ==
    [kind |-> "json_settings_list", order |-> <<"fist">>,
     hand_gestures |-> [k \in {"fist"} |-> SavedTemplate(k, OpenHand)],
     settings |-> EmptyDict]

\* the documents a recognizer is built on: none, one that is not JSON, one an
\* earlier run saved, and those edited by hand
InitialDocuments ==
    {MissingDocument,
     BrokenDocument,
     ShortTemplateDocument,
     SettingsListDocument,
     [kind |-> "json", order |-> <<"fist">>,
      hand_gestures |-> [k \in {"fist"} |->
          [landmarks |-> OpenHand, created_at |-> 0, description |-> "",
           trigger_action |-> "send_message", trigger_data |-> "/gesture/fist"]],
      settings |-> DefaultSettings],
     [kind |-> "json", order |-> << >>, hand_gestures |-> EmptyDict,
      settings |-> [similarity_threshold |-> MaxSim + 1, mode |-> 1]]}

\* the vectors add_gesture is called with, and the trigger_data
AddedHands == {OpenHand, SideHand, ShortHand}
TriggerInputs(name) == IF name = "fist" THEN {"", "/go"} ELSE {""}

\* the keyword arguments update_settings is called with: the toggle of main.py
\* 837, the two sliders of gesture_manager.py 626-629, and direct calls
KwargsInputs ==
    {[recognition_enabled |-> FALSE],
     [recognition_enabled |-> TRUE],
     [similarity_threshold |-> 0, cooldown_time |-> DefaultCooldown],
     [similarity_threshold |-> MaxSim + 1, cooldown_time |-> 0 - 1],
     [mode |-> 2],
     [cooldown_time |-> 0, mode |-> 2]}

\* the keys of self.settings that __init__ writes
RecognizedKeys == DOMAIN DefaultSettings

\* a call and its outcome
NoCall ==
    [op |-> "new", name |-> "", landmarks |-> << >>, trigger_data |-> "",
     kwargs |-> EmptyDict, raised |-> "", returned |-> "", existed |-> FALSE,
     value |-> 0]

InitStoreIdle ==
    /\ gesture_data = EmptyDict
    /\ document = MissingDocument
    /\ last_call = NoCall
    /\ published = {}

\* the recognizer is not built yet; the document is what an earlier run or an
\* editor left
InitStore ==
    /\ gestures = << >>
    /\ settings = DefaultSettings
    /\ last_trigger_time = [n \in Names |-> 0]
    /\ g_now = Epoch
    /\ g_result = NoMatch
    /\ g_sims = [n \in Names |-> 0]
    /\ g_held = FALSE
    /\ gesture_data = EmptyDict
    /\ document \in InitialDocuments
    /\ last_call = NoCall
    /\ published = {}

\* GestureRecognizer(), lines 10-19, with load_gestures
GestureRecognizer_init ==
    /\ last_call.op = "new"
    /\ LET loaded == load_gestures(document, << >>, EmptyDict, DefaultSettings)
       IN /\ gestures' = loaded.order
          /\ gesture_data' = loaded.hand_gestures
          /\ settings' = loaded.settings
    /\ last_trigger_time' = [n \in Names |-> 0]
    /\ last_call' = [NoCall EXCEPT !.op = "__init__"]
    /\ UNCHANGED <<document, published, g_now, g_result, g_sims, g_held>>
    /\ UNCHANGED outside_store

\* add_gesture(name, landmarks, "", "send_message", trigger_data), lines 123-137,
\* with save_gestures
add_gesture_store(name, landmarks, trigger_data) ==
    /\ last_call.op # "new"
    /\ IF WrongLength(landmarks)
       THEN /\ last_call' = [NoCall EXCEPT !.op = "add_gesture", !.name = name,
                                !.landmarks = landmarks,
                                !.trigger_data = trigger_data,
                                !.raised = "ValueError",
                                !.existed = name \in DOMAIN gesture_data]
            /\ UNCHANGED <<gestures, gesture_data, document>>
       ELSE /\ gesture_data' =
                  Put(gesture_data, name,
                      NewTemplate(name, landmarks, "", "send_message", trigger_data))
            /\ gestures' = OrderAfterPut(gestures, name)
            /\ document' = json_dump(gestures', gesture_data', settings)
            /\ last_call' = [NoCall EXCEPT !.op = "add_gesture", !.name = name,
                                !.landmarks = landmarks,
                                !.trigger_data = trigger_data,
                                !.returned = "None",
                                !.existed = name \in DOMAIN gesture_data]
    /\ UNCHANGED <<settings, last_trigger_time, published, g_now, g_result, g_sims,
                   g_held>>
    /\ UNCHANGED outside_store

\* remove_gesture(name), lines 139-146, with save_gestures
remove_gesture_store(name) ==
    /\ last_call.op # "new"
    /\ IF name \in DOMAIN gesture_data
       THEN /\ gesture_data' = Without(gesture_data, name)
            /\ gestures' = OrderWithout(gestures, name)
            /\ document' = json_dump(gestures', gesture_data', settings)
            /\ last_call' = [NoCall EXCEPT !.op = "remove_gesture", !.name = name,
                                !.returned = "True", !.existed = TRUE]
       ELSE /\ last_call' = [NoCall EXCEPT !.op = "remove_gesture", !.name = name,
                                !.returned = "False"]
            /\ UNCHANGED <<gestures, gesture_data, document>>
    /\ UNCHANGED <<settings, last_trigger_time, published, g_now, g_result, g_sims,
                   g_held>>
    /\ UNCHANGED outside_store

\* update_settings(**kwargs), lines 161-167, with save_gestures
update_settings_store(kwargs) ==
    /\ last_call.op # "new"
    /\ settings' = [key \in DOMAIN settings |->
                      IF key \in DOMAIN kwargs THEN kwargs[key] ELSE settings[key]]
    /\ document' = json_dump(gestures, gesture_data, settings')
    /\ last_call' = [NoCall EXCEPT !.op = "update_settings", !.kwargs = kwargs,
                        !.returned = "None"]
    /\ UNCHANGED <<gestures, gesture_data, last_trigger_time, published, g_now,
                   g_result, g_sims, g_held>>
    /\ UNCHANGED outside_store

NextStore ==
    \/ GestureRecognizer_init
    \/ \E name \in StoreNames, landmarks \in AddedHands :
          \E trigger_data \in TriggerInputs(name) :
             add_gesture_store(name, landmarks, trigger_data)
    \/ \E name \in StoreNames : remove_gesture_store(name)
    \/ \E kwargs \in KwargsInputs : update_settings_store(kwargs)

(***************************************************************************)
(* Two GestureRecognizer objects on the same gestures.json: the tracker's   *)
(* (main.py 833-841) and the gesture manager's (gesture_manager.py 33), and *)
(* save_gestures with a write that can fail (gesture_recognizer.py 34-45).  *)
(***************************************************************************)
Instances == {"tracker", "manager"}

\* how save_gestures goes: the document is written; open(file, 'w') raises and
\* the file is as it was; open has emptied the file and json.dump or the flush
\* at the end of the with block raises
SaveOutcomes == {"written", "not_opened", "cut_short"}

\* the file after save_gestures, lines 34-45, from what it was before
save_gestures(doc, order, hand_gestures, the_settings, outcome) ==
    IF outcome = "written" THEN json_dump(order, hand_gestures, the_settings)
    ELSE IF outcome = "not_opened" THEN doc
    ELSE BrokenDocument

NotBuilt ==
    [built |-> FALSE, order |-> << >>, hand_gestures |-> EmptyDict,
     settings |-> DefaultSettings]
NoSave == [instance |-> "", outcome |-> "none"]

InitSharedIdle ==
    /\ stores = [i \in Instances |-> NotBuilt]
    /\ last_save = NoSave

\* neither object is built yet; the document is missing or what an earlier run saved
InitShared ==
    /\ InitGestureIdle
    /\ InitSharedIdle
    /\ gesture_data = EmptyDict
    /\ document \in {MissingDocument,
                     json_dump(<<"fist">>, [k \in {"fist"} |-> SavedTemplate(k, OpenHand)],
                               DefaultSettings)}
    /\ last_call = NoCall
    /\ published = {}

\* GestureRecognizer(), lines 10-19, with load_gestures
GestureRecognizer_init_shared(i) ==
    /\ ~stores[i].built
    /\ LET loaded == load_gestures(document, << >>, EmptyDict, DefaultSettings)
       IN stores' = [stores EXCEPT ![i] =
                        [built |-> TRUE, order |-> loaded.order,
                         hand_gestures |-> loaded.hand_gestures,
                         settings |-> loaded.settings]]
    /\ last_call' = [NoCall EXCEPT !.op = "__init__"]
    /\ last_save' = [instance |-> i, outcome |-> "none"]
    /\ UNCHANGED <<document, gesture_data, published>>
    /\ UNCHANGED outside_shared

\* add_gesture(name, landmarks) with 42 values, lines 123-137, with save_gestures
add_gesture_shared(i, name, outcome) ==
    /\ stores[i].built
    /\ stores' = [stores EXCEPT
                    ![i].hand_gestures =
                        Put(@, name, NewTemplate(name, OpenHand, "", "send_message", "")),
                    ![i].order = OrderAfterPut(@, name)]
    /\ document' = save_gestures(document, stores'[i].order, stores'[i].hand_gestures,
                                 stores'[i].settings, outcome)
    /\ last_call' = [NoCall EXCEPT !.op = "add_gesture", !.name = name,
                        !.landmarks = OpenHand, !.returned = "None",
                        !.existed = name \in DOMAIN stores[i].hand_gestures]
    /\ last_save' = [instance |-> i, outcome |-> outcome]
    /\ UNCHANGED <<gesture_data, published>>
    /\ UNCHANGED outside_shared

\* remove_gesture(name), lines 139-146, with save_gestures
remove_gesture_shared(i, name, outcome) ==
    /\ stores[i].built
    /\ IF name \in DOMAIN stores[i].hand_gestures
       THEN /\ stores' = [stores EXCEPT ![i].hand_gestures = Without(@, name),
                                        ![i].order = OrderWithout(@, name)]
            /\ document' = save_gestures(document, stores'[i].order,
                                         stores'[i].hand_gestures,
                                         stores'[i].settings, outcome)
            /\ last_call' = [NoCall EXCEPT !.op = "remove_gesture", !.name = name,
                                !.returned = "True", !.existed = TRUE]
            /\ last_save' = [instance |-> i, outcome |-> outcome]
       ELSE /\ outcome = "written"
            /\ last_call' = [NoCall EXCEPT !.op = "remove_gesture", !.name = name,
                                !.returned = "False"]
            /\ last_save' = [instance |-> i, outcome |-> "none"]
            /\ UNCHANGED <<stores, document>>
    /\ UNCHANGED <<gesture_data, published>>
    /\ UNCHANGED outside_shared

\* update_settings(**kwargs), lines 161-167, with save_gestures
update_settings_shared(i, kwargs, outcome) ==
    /\ stores[i].built
    /\ stores' = [stores EXCEPT ![i].settings =
                     [key \in DOMAIN @ |->
                         IF key \in DOMAIN kwargs THEN kwargs[key] ELSE @[key]]]
    /\ document' = save_gestures(document, stores'[i].order, stores'[i].hand_gestures,
                                 stores'[i].settings, outcome)
    /\ last_call' = [NoCall EXCEPT !.op = "update_settings", !.kwargs = kwargs,
                        !.returned = "None"]
    /\ last_save' = [instance |-> i, outcome |-> outcome]
    /\ UNCHANGED <<gesture_data, published>>
    /\ UNCHANGED outside_shared

\* toggle_gesture_recognition, main.py 833-841: the tracker flips the setting
toggle_gesture_recognition(outcome) ==
    update_settings_shared("tracker",
        [recognition_enabled |-> ~stores["tracker"].settings.recognition_enabled],
        outcome)

\* save_settings of the manager, gesture_manager.py 624-629: the two sliders
SliderInputs ==
    {[similarity_threshold |-> 0, cooldown_time |-> DefaultCooldown],
     [similarity_threshold |-> MaxSim, cooldown_time |-> 0]}

NextShared ==
    \/ \E i \in Instances : GestureRecognizer_init_shared(i)
    \/ \E name \in Names, outcome \in SaveOutcomes :
          add_gesture_shared("manager", name, outcome)
    \/ \E name \in Names, outcome \in SaveOutcomes :
          remove_gesture_shared("manager", name, outcome)
    \/ \E kwargs \in SliderInputs, outcome \in SaveOutcomes :
          update_settings_shared("manager", kwargs, outcome)
    \/ \E outcome \in SaveOutcomes : toggle_gesture_recognition(outcome)

(***************************************************************************)
(* Landmark vectors: normalize_landmarks and calculate_similarity          *)
(* (gesture_recognizer.py 47-91), recognize_gesture on a vector, and the   *)
(* loops that process camera frames (gesture_manager.py 305-364, main.py   *)
(* 682-726).                                                               *)
(***************************************************************************)
\* points[k] of a flat vector, k counted from 0
Point(landmarks, k) == <<landmarks[2 * k + 1], landmarks[2 * k + 2]>>

\* normalize_landmarks, lines 47-70: the result is points divided by the square
\* root of scale2 when scale2 > 0, and points otherwise
normalize_landmarks_pads(landmarks) ==
    LET padded == [i \in 1..LandmarkCount |->
                      IF i <= Len(landmarks) THEN landmarks[i] ELSE 0]
        palm_center == Point(padded, PalmCenter)
        centered_points == [i \in 1..LandmarkCount |->
                               padded[i] - palm_center[2 - (i % 2)]]
        middle_finger_tip == Point(centered_points, MiddleFingerTip)
    IN [raised |-> "", points |-> centered_points,
        scale2 |-> middle_finger_tip[1] * middle_finger_tip[1]
                   + middle_finger_tip[2] * middle_finger_tip[2]]
normalize_landmarks(landmarks) ==
    IF Len(landmarks) # LandmarkCount
    THEN [raised |-> "ValueError", points |-> << >>, scale2 |-> 0]
    ELSE LET palm_center == Point(landmarks, PalmCenter)
             centered_points == [i \in 1..LandmarkCount |->
                                    landmarks[i] - palm_center[2 - (i % 2)]]
             middle_finger_tip == Point(centered_points, MiddleFingerTip)
         IN [raised |-> "", points |-> centered_points,
             scale2 |-> middle_finger_tip[1] * middle_finger_tip[1]
                        + middle_finger_tip[2] * middle_finger_tip[2]]

\* np.dot of the first n values
RECURSIVE Dot(_, _, _)
Dot(a, b, n) == IF n = 0 THEN 0 ELSE a[n] * b[n] + Dot(a, b, n - 1)

\* (d / sqrt(p) + 1) / 2 >= level / MaxSim, for p > 0
SimAtLeast(d, p, level) ==
    LET x == MaxSim * d
        y == 2 * level - MaxSim
    IN IF y <= 0 THEN x >= 0 \/ x * x <= y * y * p
                 ELSE x >= 0 /\ x * x >= y * y * p

\* (d / sqrt(p) + 1) / 2 as a level: the highest level it is at or above
SimLevel(d, p) ==
    CHOOSE level \in SimLevels :
       /\ SimAtLeast(d, p, level)
       /\ \A other \in SimLevels : SimAtLeast(d, p, other) => other <= level

\* calculate_similarity, lines 72-91; the division by the two scales cancels in
\* dot_product / norm_product
calculate_similarity_raw_second(landmarks1, landmarks2) ==
    LET norm1 == normalize_landmarks(landmarks1)
        norm2 == [normalize_landmarks(landmarks2) EXCEPT
                     !.points = IF @ = << >> THEN @ ELSE landmarks2]
    IN IF norm1.raised # "" \/ norm2.raised # ""
       THEN 0
       ELSE LET dot_product == Dot(norm1.points, norm2.points, LandmarkCount)
                norm_product2 == Dot(norm1.points, norm1.points, LandmarkCount)
                                 * Dot(norm2.points, norm2.points, LandmarkCount)
            IN IF norm_product2 = 0 THEN 0
               ELSE SimLevel(dot_product, norm_product2)
calculate_similarity(landmarks1, landmarks2) ==
    LET norm1 == normalize_landmarks(landmarks1)
        norm2 == normalize_landmarks(landmarks2)
    IN IF norm1.raised # "" \/ norm2.raised # ""
       THEN 0
       ELSE LET dot_product == Dot(norm1.points, norm2.points, LandmarkCount)
                norm_product2 == Dot(norm1.points, norm1.points, LandmarkCount)
                                 * Dot(norm2.points, norm2.points, LandmarkCount)
            IN IF norm_product2 = 0 THEN 0
               ELSE SimLevel(dot_product, norm_product2)

\* the vectors the calls are made with
LoopInputs == {OpenHand, SideHand, FlatHand, ShortHand, LongHand}

\* normalize_landmarks and calculate_similarity, tabulated for these vectors
Normalized == [landmarks \in LoopInputs |-> normalize_landmarks(landmarks)]
Similarity ==
    [landmarks1 \in LoopInputs, landmarks2 \in LoopInputs |->
        calculate_similarity(landmarks1, landmarks2)]

\* calculate_similarity(landmarks, gesture_data["landmarks"]) for each template,
\* line 103
Similarities(landmarks) ==
    [n \in Names |->
        IF n \in DOMAIN gesture_data
        THEN Similarity[landmarks, gesture_data[n].landmarks]
        ELSE 0]
\* what hands.process finds in a frame: 21 points, or no hand
CameraHands == {NoHand, OpenHand, SideHand}

\* the templates a document holds when the recognizer is built: fist, absent or
\* one of two vectors, and palm, absent or a vector
StoreOf(fist, palm) ==
    LET with_fist == IF fist = NoHand THEN EmptyDict
                     ELSE Put(EmptyDict, "fist",
                              NewTemplate("fist", fist, "", "send_message", ""))
    IN IF palm = NoHand THEN with_fist
       ELSE Put(with_fist, "palm", NewTemplate("palm", palm, "", "send_message", ""))
LoopStores ==
    {StoreOf(fist, palm) : fist \in {NoHand, OpenHand, ShortHand},
                           palm \in {NoHand, SideHand}}

\* and the settings it holds: those of __init__, recognition switched off, and
\* the lowest threshold without a cooldown
LoopSettings ==
    {DefaultSettings,
     [DefaultSettings EXCEPT !.recognition_enabled = FALSE],
     [similarity_threshold |-> 0, recognition_enabled |-> TRUE, cooldown_time |-> 0]}

\* an OSC message
Event(address, data) == [address |-> address, data |-> data]

\* a recognizer built on a document an earlier run saved
InitLoop ==
    /\ g_now = Epoch
    /\ gesture_data \in LoopStores
    /\ gestures = SelectSeq(<<"fist", "palm">>, LAMBDA n : n \in DOMAIN gesture_data)
    /\ settings \in LoopSettings
    /\ last_trigger_time = [n \in Names |-> 0]
    /\ g_result = NoMatch
    /\ g_sims = [n \in Names |-> 0]
    /\ g_held = FALSE
    /\ document = json_dump(gestures, gesture_data, settings)
    /\ last_call = [NoCall EXCEPT !.op = "__init__"]
    /\ published = {}

\* a call of normalize_landmarks(landmarks)
normalize_landmarks_call(landmarks) ==
    /\ LET normalized == Normalized[landmarks]
       IN last_call' = [NoCall EXCEPT !.op = "normalize_landmarks",
                           !.landmarks = landmarks,
                           !.raised = normalized.raised,
                           !.returned = IF normalized.raised = "" THEN "array"
                                        ELSE "",
                           !.value = Len(normalized.points)]
    /\ UNCHANGED <<gvars, gesture_data, document, published>>
    /\ UNCHANGED outside_store

\* a call of calculate_similarity(landmarks, self.gestures[name]["landmarks"]),
\* as in gesture_manager.py 612-613
calculate_similarity_call(landmarks, name) ==
    /\ name \in DOMAIN gesture_data
    /\ last_call' = [NoCall EXCEPT !.op = "calculate_similarity",
                        !.landmarks = landmarks, !.name = name,
                        !.returned = "float",
                        !.value = Similarity[landmarks,
                                                gesture_data[name].landmarks]]
    /\ UNCHANGED <<gvars, gesture_data, document, published>>
    /\ UNCHANGED outside_store

\* a call of recognize_gesture(landmarks), lines 93-121
recognize_gesture_call(landmarks) ==
    /\ LET sims == Similarities(landmarks)
           best_match == Recognized(sims)
       IN /\ g_sims' = sims
          /\ g_result' = best_match
          /\ last_trigger_time' = TriggerTimes(best_match)
          /\ last_call' = [NoCall EXCEPT !.op = "recognize_gesture",
                              !.landmarks = landmarks,
                              !.returned = IF best_match = NoMatch THEN "None"
                                           ELSE "match",
                              !.value = best_match.similarity]
    /\ g_held' = TRUE
    /\ UNCHANGED <<gestures, settings, g_now, gesture_data, document, published>>
    /\ UNCHANGED outside_store

\* one pass of GestureManager.camera_loop, gesture_manager.py 305-364: hand is
\* self.current_landmarks, recognition_enabled the mode of the manager; a match
\* is drawn and logged
camera_loop(hand, recognition_enabled) ==
    /\ IF recognition_enabled /\ hand # NoHand
       THEN LET sims == Similarities(hand)
                match == Recognized(sims)
            IN /\ g_sims' = sims
               /\ g_result' = match
               /\ last_trigger_time' = TriggerTimes(match)
               /\ g_held' = TRUE
               /\ last_call' = [NoCall EXCEPT !.op = "camera_loop",
                                   !.landmarks = hand,
                                   !.returned = IF match = NoMatch THEN "None"
                                                ELSE "match",
                                   !.value = match.similarity]
       ELSE /\ last_call' = [NoCall EXCEPT !.op = "camera_loop", !.landmarks = hand]
            /\ UNCHANGED <<g_sims, g_result, last_trigger_time, g_held>>
    /\ published' = {}
    /\ UNCHANGED <<gestures, settings, g_now, gesture_data, document>>
    /\ UNCHANGED outside_store

\* MultiModalTracker.process_hands, main.py 682-726: the hand is published, and
\* recognize_gesture is not called
process_hands(hand) ==
    /\ published' =
          IF hand = NoHand THEN {}
          ELSE {Event("/hand/position", Point(hand, PalmCenter)),
                Event("/hand/id", <<0>>),
                Event("/hand/landmarks", hand)}
    /\ last_call' = [NoCall EXCEPT !.op = "process_hands", !.landmarks = hand]
    /\ UNCHANGED <<gvars, gesture_data, document>>
    /\ UNCHANGED outside_store

NextLoop ==
    \/ \E landmarks \in LoopInputs : normalize_landmarks_call(landmarks)
    \/ \E landmarks \in LoopInputs, name \in Names :
          calculate_similarity_call(landmarks, name)
    \/ \E landmarks \in LoopInputs : recognize_gesture_call(landmarks)
    \/ \E hand \in CameraHands, recognition_enabled \in BOOLEAN :
          camera_loop(hand, recognition_enabled)
    \/ \E hand \in CameraHands : process_hands(hand)
    \/ clock_tick

(***************************************************************************)
(* MultiModalTracker._init_camera (main.py 280-435) with RpiCameraVideo.open *)
(* and RpiCamera.open: the five backend variants in the order of the code.  *)
(***************************************************************************)
VideoVariant == 1        \* create_video_camera(...): rpicam-vid subprocess
StreamingVariant == 2    \* create_camera(..., streaming=True)
StandardVariant == 3     \* create_camera(..., streaming=False)
OpenCVVariant == 4       \* cv2.VideoCapture(0)
V4L2Variant == 5         \* cv2.VideoCapture(0, cv2.CAP_V4L2)
Variants == VideoVariant..V4L2Variant

\* formats_to_try of the V4L2 variant: MJPG, then YUYV
formats_to_try == <<"BGR", "YUYV">>

\* what a test read can return: (False, None), an all-zero frame, a frame with
\* content
ReadOutcomes == {"missing", "black", "frame"}

\* no call of _init_camera is in progress
InitCameraIdle ==
    /\ ic_pc = "idle"
    /\ ic_variant = 0
    /\ ic_fmt = 0
    /\ ic_warmup = 0
    /\ ic_handle = [v \in Variants |-> "none"]
    /\ ic_thread = FALSE
    /\ ic_probe = [v \in Variants |-> "untested"]
    /\ camera_format = "unset"
    /\ ic_result = 0
    /\ ic_tried = << >>
    /\ format_at_entry = "unset"

\* _init_camera is entered: from __init__ (no _camera_format yet) or from the
\* re-initialization of run() (the format the earlier call left)
InitCamera ==
    /\ ic_pc = "open"
    /\ ic_variant = VideoVariant
    /\ ic_fmt = 0
    /\ ic_warmup = 0
    /\ ic_handle = [v \in Variants |-> "none"]
    /\ ic_thread = FALSE
    /\ ic_probe = [v \in Variants |-> "untested"]
    /\ camera_format \in {"unset", "BGR", "YUYV"}
    /\ ic_result = 0
    /\ ic_tried = << >>
    /\ format_at_entry = camera_format

\* the variant tried after variant v has failed
NextVariant_same(v) == v
NextVariant(v) == v + 1

\* variant v has failed: the next try block is entered, or after the last the
\* function goes on to log the failure
VariantFails(v) ==
    IF v < V4L2Variant
    THEN /\ ic_variant' = NextVariant(v)
         /\ ic_pc' = "open"
    ELSE /\ ic_pc' = "failed"
         /\ UNCHANGED ic_variant

\* variant v is returned
VariantReturned(v) ==
    /\ ic_result' = v
    /\ ic_pc' = "returned"
    /\ UNCHANGED ic_variant

\* lines 284-296 with RpiCameraVideo.open: Popen raises, or the process has
\* exited after the 1 s wait, or it runs and the reader thread is started; open()
\* makes no test read
init_video ==
    /\ ic_pc = "open"
    /\ ic_variant = VideoVariant
    /\ ic_tried' = Append(ic_tried, VideoVariant)
    /\ \E outcome \in {"raises", "exited", "running"} :
          IF outcome = "running"
          THEN /\ ic_handle' = [ic_handle EXCEPT ![VideoVariant] = "open"]
               /\ ic_thread' = TRUE
               /\ camera_format' = "BGR"
               /\ VariantReturned(VideoVariant)
          ELSE /\ ic_handle' = [ic_handle EXCEPT ![VideoVariant] =
                                   IF outcome = "exited" THEN "released" ELSE "none"]
               /\ VariantFails(VideoVariant)
               /\ UNCHANGED <<ic_thread, camera_format, ic_result>>
    /\ UNCHANGED <<ic_fmt, ic_warmup, ic_probe, format_at_entry>>
    /\ UNCHANGED outside_init

\* lines 298-326 with RpiCamera.open, lines 24-26: self.cap = cv2.VideoCapture(0)
\* and the isOpened() test, for the streaming and the standard variant alike
init_rpicamera_open ==
    /\ ic_pc = "open"
    /\ ic_variant \in {StreamingVariant, StandardVariant}
    /\ ic_tried' = Append(ic_tried, ic_variant)
    /\ \E isOpened \in BOOLEAN :
          IF isOpened
          THEN /\ ic_handle' = [ic_handle EXCEPT ![ic_variant] = "open"]
               /\ ic_pc' = "probe"
               /\ UNCHANGED ic_variant
          ELSE /\ VariantFails(ic_variant)
               /\ UNCHANGED ic_handle
    /\ UNCHANGED <<ic_fmt, ic_warmup, ic_thread, ic_probe, camera_format, ic_result,
                   format_at_entry>>
    /\ UNCHANGED outside_init

\* RpiCamera.open, lines 33-44: the test read is accepted when ret and
\* test_frame is not None; otherwise the capture is released
init_rpicamera_probe ==
    /\ ic_pc = "probe"
    /\ ic_variant \in {StreamingVariant, StandardVariant}
    /\ \E test \in ReadOutcomes :
          /\ ic_probe' = [ic_probe EXCEPT ![ic_variant] = test]
          /\ IF test # "missing"
             THEN /\ camera_format' = "BGR"
                  /\ VariantReturned(ic_variant)
                  /\ UNCHANGED ic_handle
             ELSE /\ ic_handle' = [ic_handle EXCEPT ![ic_variant] = "released"]
                  /\ VariantFails(ic_variant)
                  /\ UNCHANGED <<camera_format, ic_result>>
    /\ UNCHANGED <<ic_fmt, ic_warmup, ic_thread, ic_tried, format_at_entry>>
    /\ UNCHANGED outside_init

\* lines 328-345: cap = cv2.VideoCapture(0); when it is open its properties are
\* set and self._camera_format = 'BGR' is assigned before any frame is read
init_opencv_open ==
    /\ ic_pc = "open"
    /\ ic_variant = OpenCVVariant
    /\ ic_tried' = Append(ic_tried, OpenCVVariant)
    /\ \E isOpened \in BOOLEAN :
          IF isOpened
          THEN /\ ic_handle' = [ic_handle EXCEPT ![OpenCVVariant] = "open"]
               /\ camera_format' = "BGR"
               /\ ic_warmup' = 0
               /\ ic_pc' = "warmup"
               /\ UNCHANGED ic_variant
          ELSE /\ VariantFails(OpenCVVariant)
               /\ UNCHANGED <<ic_handle, camera_format, ic_warmup>>
    /\ UNCHANGED <<ic_fmt, ic_thread, ic_probe, ic_result, format_at_entry>>
    /\ UNCHANGED outside_init

\* lines 347-353: up to 5 warm-up reads, ended by the first frame with content
init_opencv_warmup ==
    /\ ic_pc = "warmup"
    /\ IF ic_warmup >= WarmupReads
       THEN /\ ic_pc' = "probe"
            /\ UNCHANGED ic_warmup
       ELSE \E warmup_frame \in ReadOutcomes :
               /\ ic_warmup' = ic_warmup + 1
               /\ ic_pc' = IF warmup_frame = "frame" THEN "probe" ELSE "warmup"
    /\ UNCHANGED <<ic_variant, ic_fmt, ic_handle, ic_thread, ic_probe, camera_format,
                   ic_result, ic_tried, format_at_entry>>
    /\ UNCHANGED outside_init

\* lines 355-382: the test frame is accepted when it is there and frame_max > 0;
\* otherwise cap.release()
init_opencv_probe ==
    /\ ic_pc = "probe"
    /\ ic_variant = OpenCVVariant
    /\ \E test \in ReadOutcomes :
          /\ ic_probe' = [ic_probe EXCEPT ![OpenCVVariant] = test]
          /\ IF test = "frame"
             THEN /\ VariantReturned(OpenCVVariant)
                  /\ UNCHANGED ic_handle
             ELSE /\ ic_handle' = [ic_handle EXCEPT ![OpenCVVariant] = "released"]
                  /\ VariantFails(OpenCVVariant)
                  /\ UNCHANGED ic_result
    /\ UNCHANGED <<ic_fmt, ic_warmup, ic_thread, camera_format, ic_tried,
                   format_at_entry>>
    /\ UNCHANGED outside_init

\* lines 390-398: cap = cv2.VideoCapture(0, cv2.CAP_V4L2) and the isOpened() test
init_v4l2_open ==
    /\ ic_pc = "open"
    /\ ic_variant = V4L2Variant
    /\ ic_tried' = Append(ic_tried, V4L2Variant)
    /\ ic_fmt' = 1
    /\ \E isOpened \in BOOLEAN :
          IF isOpened
          THEN /\ ic_handle' = [ic_handle EXCEPT ![V4L2Variant] = "open"]
               /\ ic_pc' = "probe"
               /\ UNCHANGED ic_variant
          ELSE /\ VariantFails(V4L2Variant)
               /\ UNCHANGED ic_handle
    /\ UNCHANGED <<ic_warmup, ic_thread, ic_probe, camera_format, ic_result,
                   format_at_entry>>
    /\ UNCHANGED outside_init

\* lines 400-424: for fmt in formats_to_try: set it, read a test frame, accept it
\* when it has content; after the last format cap.release()
init_v4l2_probe ==
    /\ ic_pc = "probe"
    /\ ic_variant = V4L2Variant
    /\ \E test \in ReadOutcomes :
          /\ ic_probe' = [ic_probe EXCEPT ![V4L2Variant] = test]
          /\ IF test = "frame"
             THEN /\ camera_format' = formats_to_try[ic_fmt]
                  /\ VariantReturned(V4L2Variant)
                  /\ UNCHANGED <<ic_handle, ic_fmt>>
             ELSE IF ic_fmt < Len(formats_to_try)
             THEN /\ ic_fmt' = ic_fmt + 1
                  /\ UNCHANGED <<ic_pc, ic_variant, ic_handle, camera_format, ic_result>>
             ELSE /\ ic_handle' = [ic_handle EXCEPT ![V4L2Variant] = "released"]
                  /\ VariantFails(V4L2Variant)
                  /\ UNCHANGED <<ic_fmt, camera_format, ic_result>>
    /\ UNCHANGED <<ic_warmup, ic_thread, ic_tried, format_at_entry>>
    /\ UNCHANGED outside_init

\* lines 430-435: every variant has failed, return None
init_all_failed ==
    /\ ic_pc = "failed"
    /\ ic_result' = 0
    /\ ic_pc' = "returned"
    /\ UNCHANGED <<ic_variant, ic_fmt, ic_warmup, ic_handle, ic_thread, ic_probe,
                   camera_format, ic_tried, format_at_entry>>
    /\ UNCHANGED outside_init

NextInit ==
    \/ init_video
    \/ init_rpicamera_open
    \/ init_rpicamera_probe
    \/ init_opencv_open
    \/ init_opencv_warmup
    \/ init_opencv_probe
    \/ init_v4l2_open
    \/ init_v4l2_probe
    \/ init_all_failed

(***************************************************************************)
(* MultiModalTracker.run, _main_loop and cleanup (main.py 437-547,         *)
(* 927-957). A ThreadedFrameReader appears here as run() sees it: its      *)
(* flag, its thread, its queue and its staleness.                          *)
(***************************************************************************)
HandleIds == 1..max_retries
ReaderIds == 1..max_retries

OpenHandles == {h \in HandleIds : handles[h] = "open"}
\* the next handle a successful open creates, the next reader object built
NewHandle == CHOOSE h \in HandleIds :
                handles[h] = "unopened" /\ \A g \in HandleIds : g < h => handles[g] # "unopened"
NewReader == CHOOSE r \in ReaderIds :
                rd_camera[r] = 0 /\ \A q \in ReaderIds : q < r => rd_camera[q] # 0

\* the tracker before __init__ has opened anything
InitTrackerIdle ==
    /\ run_pc = "init"
    /\ retry_count = 0
    /\ cleaned_up = FALSE
    /\ cap = 0
    /\ handles = [h \in HandleIds |-> "unopened"]
    /\ releases = [h \in HandleIds |-> 0]
    /\ consecutive_frame_failures = 0
    /\ no_frame_count = 0
    /\ rd_running = [r \in ReaderIds |-> FALSE]
    /\ rd_alive = [r \in ReaderIds |-> FALSE]
    /\ rd_camera = [r \in ReaderIds |-> 0]
    /\ rd_frames = [r \in ReaderIds |-> 0]
    /\ rd_stale = [r \in ReaderIds |-> FALSE]
    /\ rd_stopped = [r \in ReaderIds |-> FALSE]
    /\ loop_entries = 0
    /\ reinits = 0

\* the tracker after __init__ (lines 232-249): no camera; a camera of an RpiCamera
\* class read directly; or an OpenCV capture behind a ThreadedFrameReader
InitTracker ==
    /\ run_pc = "init"
    /\ retry_count = 0
    /\ cleaned_up = FALSE
    /\ consecutive_frame_failures = 0
    /\ no_frame_count = 0
    /\ rd_running = [r \in ReaderIds |-> FALSE]
    /\ rd_alive = [r \in ReaderIds |-> FALSE]
    /\ rd_frames = [r \in ReaderIds |-> 0]
    /\ rd_stale = [r \in ReaderIds |-> FALSE]
    /\ rd_stopped = [r \in ReaderIds |-> FALSE]
    /\ loop_entries = 0
    /\ reinits = 0
    /\ releases = [h \in HandleIds |-> 0]
    /\ \/ /\ cap = 0 /\ frame_reader = 0
          /\ handles = [h \in HandleIds |-> "unopened"]
          /\ rd_camera = [r \in ReaderIds |-> 0]
       \/ /\ cap = 1 /\ frame_reader = 0
          /\ handles = [h \in HandleIds |-> IF h = 1 THEN "open" ELSE "unopened"]
          /\ rd_camera = [r \in ReaderIds |-> 0]
       \/ /\ cap = 1 /\ frame_reader = 1
          /\ handles = [h \in HandleIds |-> IF h = 1 THEN "open" ELSE "unopened"]
          /\ rd_camera = [r \in ReaderIds |-> IF r = 1 THEN 1 ELSE 0]

\* every poll that returns no frame has waited the 0.1 s of get(timeout): after this
\* many of them in a row the last frame is 3 s old, whatever else has happened
PollsPerStaleWindow == 30

\* ThreadedFrameReader.is_healthy of reader r; the thread that has counted
\* max_failures failures has left its loop
reader_is_healthy(r) == rd_running[r] /\ ~rd_stale[r]

\* ---- the acquisition thread of reader r
\* a read succeeds and the frame is enqueued, the oldest dropped from a full queue
reader_delivers(r) ==
    /\ rd_alive[r]
    /\ handles[rd_camera[r]] = "open"
    /\ rd_frames' = [rd_frames EXCEPT ![r] = Min(rd_frames[r] + 1, buffer_size)]
    /\ rd_stale' = [rd_stale EXCEPT ![r] = FALSE]
    /\ UNCHANGED <<frame_reader, run_pc, retry_count, cleaned_up, cap, handles, releases,
                   consecutive_frame_failures, no_frame_count, rd_running, rd_alive,
                   rd_camera, rd_stopped>>
    /\ UNCHANGED <<outside_objects, hvars>>

\* max_failures consecutive reads have failed: the thread leaves its loop
reader_gives_up(r) ==
    /\ rd_alive[r]
    /\ rd_running' = [rd_running EXCEPT ![r] = FALSE]
    /\ rd_alive' = [rd_alive EXCEPT ![r] = FALSE]
    /\ UNCHANGED <<frame_reader, run_pc, retry_count, cleaned_up, cap, handles, releases,
                   consecutive_frame_failures, no_frame_count, rd_camera, rd_frames,
                   rd_stale, rd_stopped>>
    /\ UNCHANGED <<outside_objects, hvars>>

\* the thread finds the flag cleared at the top of its loop and ends
reader_sees_stop(r) ==
    /\ rd_alive[r]
    /\ ~rd_running[r]
    /\ rd_alive' = [rd_alive EXCEPT ![r] = FALSE]
    /\ UNCHANGED <<frame_reader, run_pc, retry_count, cleaned_up, cap, handles, releases,
                   consecutive_frame_failures, no_frame_count, rd_running, rd_camera,
                   rd_frames, rd_stale, rd_stopped>>
    /\ UNCHANGED <<outside_objects, hvars>>

\* 3 seconds pass without a frame of reader r
reader_goes_stale(r) ==
    /\ r = frame_reader
    /\ run_pc = "main_loop"
    /\ ~rd_stale[r]
    /\ rd_stale' = [rd_stale EXCEPT ![r] = TRUE]
    /\ UNCHANGED <<frame_reader, run_pc, retry_count, cleaned_up, cap, handles, releases,
                   consecutive_frame_failures, no_frame_count, rd_running, rd_alive,
                   rd_camera, rd_frames, rd_stopped>>
    /\ UNCHANGED <<outside_objects, hvars>>

\* ---- cleanup(): with _cleaned_up set it returns at once; else it sets the flag,
\* stops and drops the frame reader, releases and drops the camera
cleanup_resources ==
    /\ cleaned_up' = TRUE
    /\ IF frame_reader # 0
       THEN /\ rd_running' = [rd_running EXCEPT ![frame_reader] = FALSE]
            /\ rd_stopped' = [rd_stopped EXCEPT ![frame_reader] = TRUE]
       ELSE UNCHANGED <<rd_running, rd_stopped>>
    /\ frame_reader' = 0
    /\ IF cap # 0
       THEN /\ handles' = [handles EXCEPT ![cap] = "released"]
            /\ releases' = [releases EXCEPT ![cap] = @ + 1]
       ELSE UNCHANGED <<handles, releases>>
    /\ cap' = 0

cleanup ==
    IF cleaned_up
    THEN UNCHANGED <<cleaned_up, frame_reader, cap, handles, releases, rd_running,
                     rd_stopped>>
    ELSE cleanup_resources

\* ---- run()
\* lines 452-456: the frame reader, if there is one, is started
run_start ==
    /\ run_pc = "init"
    /\ IF frame_reader # 0
       THEN /\ rd_running' = [rd_running EXCEPT ![frame_reader] = TRUE]
            /\ rd_alive' = [rd_alive EXCEPT ![frame_reader] = TRUE]
       ELSE UNCHANGED <<rd_running, rd_alive>>
    /\ run_pc' = "loop"
    /\ UNCHANGED <<frame_reader, retry_count, cleaned_up, cap, handles, releases,
                   consecutive_frame_failures, no_frame_count, rd_camera, rd_frames,
                   rd_stale, rd_stopped>>
    /\ UNCHANGED <<outside_objects, hvars>>

\* run_loop with the loop condition retry_count <= max_retries
run_loop_one_more ==
    /\ run_pc = "loop"
    /\ run_pc' = IF retry_count <= max_retries THEN "main_loop" ELSE "final_cleanup"
    /\ loop_entries' = IF retry_count <= max_retries THEN loop_entries + 1 ELSE loop_entries
    /\ UNCHANGED reinits
    /\ UNCHANGED <<frame_reader, retry_count, cleaned_up, cap, handles, releases,
                   consecutive_frame_failures, no_frame_count, rd_running, rd_alive,
                   rd_camera, rd_frames, rd_stale, rd_stopped>>
    /\ UNCHANGED outside_objects

\* while retry_count < max_retries: ... self._main_loop()
run_loop ==
    /\ run_pc = "loop"
    /\ run_pc' = IF retry_count < max_retries THEN "main_loop" ELSE "final_cleanup"
    /\ loop_entries' = IF retry_count < max_retries THEN loop_entries + 1 ELSE loop_entries
    /\ UNCHANGED reinits
    /\ UNCHANGED <<frame_reader, retry_count, cleaned_up, cap, handles, releases,
                   consecutive_frame_failures, no_frame_count, rd_running, rd_alive,
                   rd_camera, rd_frames, rd_stale, rd_stopped>>
    /\ UNCHANGED outside_objects

\* the end of _main_loop, by return (quit) or by an exception: its locals are gone
LeaveMainLoop(to) ==
    /\ run_pc' = to
    /\ consecutive_frame_failures' = 0
    /\ no_frame_count' = 0

\* main_loop_no_frame without the is_healthy() test: it only waits for a frame
main_loop_no_frame_waits ==
    /\ run_pc = "main_loop"
    /\ frame_reader # 0
    /\ rd_frames[frame_reader] = 0
    /\ no_frame_count' = Min(no_frame_count + 1, NoFrameLimit)
    /\ UNCHANGED <<frame_reader, run_pc, retry_count, cleaned_up, cap, handles, releases,
                   consecutive_frame_failures, rd_running, rd_alive, rd_camera, rd_frames,
                   rd_stale, rd_stopped>>
    /\ UNCHANGED <<outside_objects, hvars>>

\* _main_loop with a frame reader, get_latest_frame returns (False, None):
\* lines 511-531
main_loop_no_frame ==
    /\ run_pc = "main_loop"
    /\ frame_reader # 0
    /\ rd_frames[frame_reader] = 0
    /\ LET count == Min(no_frame_count + 1, NoFrameLimit)
           unhealthy == ~reader_is_healthy(frame_reader) \/ count > PollsPerStaleWindow
           c1 == IF unhealthy THEN consecutive_frame_failures + 1
                 ELSE consecutive_frame_failures
           c2 == IF count >= NoFrameLimit THEN c1 + 1 ELSE c1
       IN IF \/ unhealthy /\ c1 >= max_frame_failures
             \/ count >= NoFrameLimit /\ c2 >= max_frame_failures
          THEN LeaveMainLoop("except")
          ELSE /\ consecutive_frame_failures' = c2
               /\ no_frame_count' = count
               /\ UNCHANGED run_pc
    /\ UNCHANGED <<frame_reader, retry_count, cleaned_up, cap, handles, releases,
                   rd_running, rd_alive, rd_camera, rd_frames, rd_stale, rd_stopped>>
    /\ UNCHANGED <<outside_objects, hvars>>

\* _main_loop with a frame reader, get_latest_frame returns a frame: the counters
\* are reset and the frame is processed; the q key ends the loop
main_loop_frame ==
    /\ run_pc = "main_loop"
    /\ frame_reader # 0
    /\ rd_frames[frame_reader] > 0
    /\ rd_frames' = [rd_frames EXCEPT ![frame_reader] = 0]
    /\ \E quit \in BOOLEAN :
          IF quit THEN LeaveMainLoop("final_cleanup")
          ELSE /\ consecutive_frame_failures' = 0
               /\ no_frame_count' = 0
               /\ UNCHANGED run_pc
    /\ UNCHANGED <<frame_reader, retry_count, cleaned_up, cap, handles, releases,
                   rd_running, rd_alive, rd_camera, rd_stale, rd_stopped>>
    /\ UNCHANGED <<outside_objects, hvars>>

\* _main_loop without a frame reader: ret, frame = self.cap.read(), lines 534-543;
\* with self.cap None the call raises
main_loop_direct ==
    /\ run_pc = "main_loop"
    /\ frame_reader = 0
    /\ IF cap = 0
       THEN LeaveMainLoop("except")
       ELSE \E ret \in BOOLEAN, quit \in BOOLEAN :
               IF ~ret
               THEN IF consecutive_frame_failures + 1 >= max_frame_failures
                    THEN LeaveMainLoop("except")
                    ELSE /\ consecutive_frame_failures' = consecutive_frame_failures + 1
                         /\ UNCHANGED <<run_pc, no_frame_count>>
               ELSE IF quit THEN LeaveMainLoop("final_cleanup")
                    ELSE /\ consecutive_frame_failures' = 0
                         /\ no_frame_count' = 0
                         /\ UNCHANGED run_pc
    /\ UNCHANGED <<frame_reader, retry_count, cleaned_up, cap, handles, releases,
                   rd_running, rd_alive, rd_camera, rd_frames, rd_stale, rd_stopped>>
    /\ UNCHANGED <<outside_objects, hvars>>

\* except Exception: retry_count += 1; below max_retries the pipeline is rebuilt
run_except ==
    /\ run_pc = "except"
    /\ retry_count' = retry_count + 1
    /\ run_pc' = IF retry_count + 1 < max_retries THEN "cleanup" ELSE "loop"
    /\ UNCHANGED <<frame_reader, cleaned_up, cap, handles, releases,
                   consecutive_frame_failures, no_frame_count, rd_running, rd_alive,
                   rd_camera, rd_frames, rd_stale, rd_stopped>>
    /\ UNCHANGED <<outside_objects, hvars>>

\* lines 479-482: self.cleanup() before the re-initialization
run_retry_cleanup ==
    /\ run_pc = "cleanup"
    /\ cleanup
    /\ run_pc' = "reinit"
    /\ UNCHANGED <<retry_count, consecutive_frame_failures, no_frame_count, rd_alive,
                   rd_camera, rd_frames, rd_stale>>
    /\ UNCHANGED <<outside_objects, hvars>>

\* lines 485-492: self.cap = self._init_camera(); with a camera a new
\* ThreadedFrameReader is built and started
run_reinit ==
    /\ run_pc = "reinit"
    /\ \E opened \in BOOLEAN :
          IF opened
          THEN /\ handles' = [handles EXCEPT ![NewHandle] = "open"]
               /\ cap' = NewHandle
               /\ frame_reader' = NewReader
               /\ rd_camera' = [rd_camera EXCEPT ![NewReader] = NewHandle]
               /\ rd_running' = [rd_running EXCEPT ![NewReader] = TRUE]
               /\ rd_alive' = [rd_alive EXCEPT ![NewReader] = TRUE]
          ELSE /\ cap' = 0
               /\ UNCHANGED <<handles, frame_reader, rd_camera, rd_running, rd_alive>>
    /\ run_pc' = "loop"
    /\ UNCHANGED <<retry_count, cleaned_up, releases, consecutive_frame_failures,
                   no_frame_count, rd_frames, rd_stale, rd_stopped>>
    /\ UNCHANGED outside_objects
    /\ reinits' = reinits + 1
    /\ UNCHANGED loop_entries

\* line 496: self.cleanup(), and run() returns
run_final_cleanup ==
    /\ run_pc = "final_cleanup"
    /\ cleanup
    /\ run_pc' = "returned"
    /\ UNCHANGED <<retry_count, consecutive_frame_failures, no_frame_count, rd_alive,
                   rd_camera, rd_frames, rd_stale>>
    /\ UNCHANGED <<outside_objects, hvars>>

\* SIGINT or SIGTERM once run() has installed signal_handler: cleanup(); exit(0)
signal_handler ==
    /\ run_pc \notin {"init", "returned", "exited"}
    /\ cleanup
    /\ run_pc' = "exited"
    /\ consecutive_frame_failures' = 0
    /\ no_frame_count' = 0
    /\ UNCHANGED <<retry_count, rd_alive, rd_camera, rd_frames, rd_stale>>
    /\ UNCHANGED <<outside_objects, hvars>>

NextRun ==
    \/ run_start
    \/ run_loop
    \/ main_loop_no_frame
    \/ main_loop_frame
    \/ main_loop_direct
    \/ run_except
    \/ run_retry_cleanup
    \/ run_reinit
    \/ run_final_cleanup
    \/ signal_handler
    \/ \E r \in ReaderIds :
          \/ reader_delivers(r)
          \/ reader_gives_up(r)
          \/ reader_sees_stop(r)
          \/ reader_goes_stale(r)

InitRun ==
    /\ InitTracker
    /\ InitReader
    /\ InitSharedIdle
    /\ InitVideoClosed
    /\ InitCameraIdle
    /\ InitGestureIdle
    /\ InitStoreIdle

\* one call of _init_camera, before the tracker owns a camera
InitInit ==
    /\ InitCamera
    /\ InitTrackerIdle
    /\ InitReader
    /\ InitSharedIdle
    /\ InitVideoClosed
    /\ InitGestureIdle
    /\ InitStoreIdle
    /\ frame_reader = 0

SpecInit == InitInit /\ [][NextInit]_vars

\* one GestureRecognizer, before the tracker runs
InitGestureOnly ==
    /\ InitGesture
    /\ InitStoreIdle
    /\ InitCameraIdle
    /\ InitTrackerIdle
    /\ InitReader
    /\ InitSharedIdle
    /\ InitVideoClosed
    /\ frame_reader = 0

SpecGesture == InitGestureOnly /\ [][NextGesture]_vars

\* one GestureRecognizer and its document
InitStoreOnly ==
    /\ InitStore
    /\ InitCameraIdle
    /\ InitTrackerIdle
    /\ InitReader
    /\ InitSharedIdle
    /\ InitVideoClosed
    /\ frame_reader = 0

SpecStore == InitStoreOnly /\ [][NextStore]_vars

\* the tracker's and the manager's GestureRecognizer on one document
InitSharedOnly ==
    /\ InitShared
    /\ InitCameraIdle
    /\ InitTrackerIdle
    /\ InitReader
    /\ InitVideoClosed
    /\ frame_reader = 0

SpecShared == InitSharedOnly /\ [][NextShared]_vars

\* one GestureRecognizer and the loops that feed it
InitLoopOnly ==
    /\ InitLoop
    /\ InitCameraIdle
    /\ InitTrackerIdle
    /\ InitReader
    /\ InitSharedIdle
    /\ InitVideoClosed
    /\ frame_reader = 0

SpecLoop == InitLoopOnly /\ [][NextLoop]_vars

SpecRun == InitRun /\ [][NextRun]_vars

(***************************************************************************)
(* The pipeline as MultiModalTracker.__init__ leaves it (main.py 232-249): *)
(* an OpenCV capture behind a ThreadedFrameReader, or an RpiCameraVideo    *)
(* read directly.                                                          *)
(***************************************************************************)
\* start() as its callers use it: not while an earlier thread is still alive
start_once == AliveThreads = {} /\ start

Init ==
    /\ \/ frame_reader = 1 /\ InitReader /\ InitVideoClosed
       \/ frame_reader = 0 /\ InitReader /\ InitVideoOpened
    /\ InitTrackerIdle
    /\ InitCameraIdle
    /\ InitGestureIdle
    /\ InitStoreIdle
    /\ InitSharedIdle

Next ==
    \/ start_once
    \/ stop
    \/ stop_join_returns
    \/ get_latest_frame_begin
    \/ get_latest_frame_empty
    \/ get_latest_frame_get_nowait
    \/ get_latest_frame_get
    \/ \E t \in Threads : read_frames(t)
    \/ Tick
    \/ frame_reader_thread
    \/ process_ends
    \/ video_read
    \/ video_release
    \/ video_release_join
    \/ video_release_terminate

Spec == Init /\ [][Next]_vars

(***************************************************************************)
(* The reader with a camera that never fails and never runs out of frames, *)
(* a started acquisition thread and a main thread that calls               *)
(* get_latest_frame. Both threads are scheduled again and again.           *)
(***************************************************************************)
InitDrain ==
    /\ frame_reader = 1
    /\ InitReader
    /\ InitSharedIdle
    /\ InitVideoClosed
    /\ InitTrackerIdle
    /\ InitCameraIdle
    /\ InitGestureIdle
    /\ InitStoreIdle

acquisition_step(t) ==
    \/ read_frames_top(t)
    \/ read_frames_ok_unbounded(t)
    \/ read_frames_full(t)
    \/ read_frames_evict(t)
    \/ read_frames_put(t)

get_latest_frame_step ==
    \/ get_latest_frame_empty
    \/ get_latest_frame_get_nowait
    \/ get_latest_frame_get

NextDrain ==
    \/ start_once
    \/ get_latest_frame_begin
    \/ get_latest_frame_step
    \/ \E t \in Threads : acquisition_step(t)

SpecDrain ==
    /\ InitDrain
    /\ [][NextDrain]_vars
    /\ WF_vars(get_latest_frame_step)
    /\ \A t \in Threads : WF_vars(acquisition_step(t))

(***************************************************************************)
(* One ThreadedFrameReader whose start() and stop() are called in any       *)
(* order, also while a thread that outlived the join of stop() is still     *)
(* alive; the camera does not fail and nobody takes frames out.             *)
(***************************************************************************)
restarted_step(t) ==
    \/ read_frames_top(t)
    \/ read_frames_ok(t)
    \/ read_frames_full(t)
    \/ read_frames_evict(t)
    \/ read_frames_put(t)
    \/ read_frames_exit(t)

NextRestart ==
    \/ start
    \/ stop
    \/ stop_join_returns
    \/ \E t \in Threads : restarted_step(t)
    \/ Tick

SpecRestart == InitDrain /\ [][NextRestart]_vars

(***************************************************************************)
(* Properties of the frame queues and the ThreadedFrameReader.             *)
(***************************************************************************)
\* the frames with ranks q (their places in the capture) are in capture order
InCaptureOrder(q) ==
    \A i, j \in 1..Len(q) : i < j => q[i] < q[j]

\* a frame of the reader is its capture number; a frame of the video backend is
\* the bytes it was sliced from, ranked by the stream offset of the first
ReaderRank(q) == q
VideoRank(q) == [i \in 1..Len(q) |-> q[i][1]]

\* C1: in every reachable state each frame queue holds at most its capacity of
\* frames (buffer_size for the ThreadedFrameReader, 2 for the RpiCameraVideo), and
\* the frames it holds are in capture order.
C1_QueuesBoundedInOrder ==
    /\ Len(frame_queue) <= buffer_size
    /\ InCaptureOrder(ReaderRank(frame_queue))
    /\ Len(v_frame_queue) <= video_maxsize
    /\ InCaptureOrder(VideoRank(v_frame_queue))

\* the reader's queue is full while the consumer drains and the producer is about
\* to evict
C1_Witness ==
    /\ Len(frame_queue) = buffer_size
    /\ mpc = "dget"
    /\ \E t \in Threads : pc[t] = "evict"

\* the last n elements of q
LastN(q, n) == IF Len(q) <= n THEN q ELSE SubSeq(q, Len(q) - n + 1, Len(q))

\* C2: with no consumer, once the acquisition task has pushed f1..fn in order into
\* a queue of capacity N, the queue holds exactly the last min(n,N) of them in push
\* order, so the freshest retrievable frame is fn.
C2_DropOldest ==
    (~consumer_seen /\ \A t \in Threads : pc[t] # "put")
        => /\ frame_queue = LastN(pushed, buffer_size)
           /\ pushed = [i \in 1..Len(pushed) |-> i]
           /\ Newest(frame_queue) = Newest(pushed)

\* three frames pushed into the capacity-2 queue, no consumer: the queue is f2, f3
C2_Witness ==
    /\ ~consumer_seen
    /\ pushed = <<1, 2, 3>>
    /\ frame_queue = <<2, 3>>

\* C3: when get_latest_frame returns frame f, no frame captured after f had been
\* enqueued before the call began.
C3_ReturnsNewest ==
    (mpc = "idle" /\ result.ret) => result.frame >= newest_at_call

\* C5: the acquisition task never waits on the consumer: no frame it has read is
\* dropped by the queue.Full branch, every frame read is enqueued or still in the
\* thread's hands, and each of its steps other than the camera read can be taken
\* whatever the main thread is doing.
C5_ProducerNeverBlocked ==
    /\ skipped = {}
    /\ \A f \in 1..captured :
          \/ \E i \in 1..Len(pushed) : pushed[i] = f
          \/ \E t \in Threads : frame[t] = f
    /\ \A t \in Threads :
          pc[t] \in {"top", "full", "evict", "put", "exit"} => ENABLED read_frames(t)

\* the producer found the queue full, the consumer took a frame out in the middle
\* of its drain, and the producer is about to enqueue
C5_Witness ==
    /\ \E t \in Threads : pc[t] = "put"
    /\ Len(frame_queue) < buffer_size
    /\ mpc = "drain"
    /\ latest_frame # 0

C4_GetLatestFrameReturns == (mpc # "idle") ~> (mpc = "idle")

\* C7 as stated: the acquisition task terminates itself only once the count of
\* consecutive failed reads exceeds max_failures.
C7_TerminatesAboveMax ==
    \A t \in Threads : (pc[t] = "exit" /\ running) => consecutive_failures > max_failures

\* C7, amended: a successful read resets the count; a failed read adds one to it,
\* and the task terminates itself exactly when the count has then reached
\* max_failures (it goes on below it); is_healthy() is false from the count
\* reaching max_failures, and stays false after the task has ended for as long as
\* start() is not called again.
C7_TerminatesAtMax ==
    /\ [](\A t \in Threads :
            (pc[t] = "exit" /\ running) => consecutive_failures >= max_failures)
    /\ [](consecutive_failures >= max_failures => ~is_healthy)
    /\ [][\A t \in Threads :
            (pc[t] = "read" /\ pc'[t] # "read") =>
                IF pc'[t] = "full"
                THEN consecutive_failures' = 0
                ELSE /\ consecutive_failures' = consecutive_failures + 1
                     /\ pc'[t] = "exit" <=> consecutive_failures' >= max_failures
                     /\ pc'[t] = "top" <=> consecutive_failures' < max_failures]_vars
    /\ [][(AliveThreads = {} /\ ~is_healthy /\ ~start) => ~is_healthy']_vars

\* the tenth consecutive failure: the task is leaving its loop, the flag still set
C7_Witness ==
    /\ \E t \in Threads : pc[t] = "exit"
    /\ running
    /\ consecutive_failures = max_failures

\* the fields of the reader that stop() does not write
StopLeaves == <<frame_queue, thread, consecutive_failures, time_since_last_frame, pc,
                frame, captured>>

\* C8: stop() only clears the running flag and waits: called before start() or
\* again after the thread has ended it changes nothing; it waits at most
\* JoinTimeout (1 second) for the thread; and once the flag is cleared the task
\* enqueues at most one more frame (the read in progress) and leaves at its next
\* loop-top check.
C8_StopIdempotentBounded ==
    /\ [](mpc = "join" => join_elapsed <= JoinTimeout)
    /\ [](puts_while_stopped <= 1)
    /\ [][stop => (~running' /\ UNCHANGED StopLeaves)]_vars
    /\ [][(stop /\ ~running /\ ~ThreadIsAlive) => UNCHANGED <<running, mpc, StopLeaves>>]_vars
    /\ [][\A t \in Threads :
            (pc[t] = "top" /\ ~running /\ pc'[t] # "top") => pc'[t] = "exit"]_vars

\* stop() came while the thread was reading: the join timed out, the thread
\* enqueued the frame of that read and has ended
C8_Witness ==
    /\ puts_while_stopped = 1
    /\ mpc = "idle"
    /\ AliveThreads = {}
    /\ join_elapsed = JoinTimeout
(***************************************************************************)
(* Properties of MultiModalTracker.run.                                    *)
(***************************************************************************)
\* the readers run() has started
StartedReaders == {r \in ReaderIds : rd_camera[r] # 0 /\ run_pc # "init"}

\* C9: at most one backend handle is open at any time, and at every
\* re-initialization the old frame reader has been stopped and the old backend
\* released when _init_camera is called.
C9_OneBackendHandle ==
    /\ Cardinality(OpenHandles) <= 1
    /\ run_pc = "reinit" =>
          /\ OpenHandles = {}
          /\ \A r \in StartedReaders : rd_stopped[r]

\* C10: when run() has ended, every backend handle opened during the run has been
\* released exactly once and every frame reader that was started has been stopped.
C10_AllReleasedAtEnd ==
    run_pc \in {"returned", "exited"} =>
        /\ \A h \in HandleIds : handles[h] # "unopened" => releases[h] = 1
        /\ \A r \in StartedReaders : rd_stopped[r]
\* C11: run() gives the pipeline a budget of max_retries = 3 attempts: _main_loop
\* is entered at most 3 times, _init_camera is called again at most 2 times, and
\* from the third failure on run() only leaves its loop, cleans up and returns.
C11_RetryBudget ==
    /\ [](loop_entries <= max_retries /\ reinits <= max_retries - 1)
    /\ [](retry_count >= max_retries =>
            /\ run_pc \in {"loop", "final_cleanup", "returned", "exited"}
            /\ run_pc = "loop" => ENABLED run_loop
            /\ run_pc = "final_cleanup" => ENABLED run_final_cleanup)
    /\ [][(retry_count >= max_retries) => UNCHANGED <<loop_entries, reinits>>]_vars

\* three failures: run() has returned after three main loops and two
\* re-initializations
C11_Witness ==
    /\ run_pc = "returned"
    /\ retry_count = max_retries
    /\ loop_entries = max_retries
    /\ reinits = max_retries - 1

\* C12 as stated: after the main loop has raised on an unhealthy reader, run()
\* always re-initializes the pipeline, with a new backend and a new reader.
C12_AlwaysReinitializes ==
    /\ [][(run_except /\ frame_reader # 0) => run_pc' = "cleanup"]_vars
    /\ [][run_reinit => (cap' # 0 /\ frame_reader' # frame_reader)]_vars

\* C12, amended: a poll that finds no frame and the reader unhealthy counts one
\* failure and the main loop raises at the 10th, so it never waits on the reader
\* for more than 10 such polls; run() never starts the thread of a reader again;
\* while fewer than max_retries failures have occurred it then calls cleanup()
\* and _init_camera(), and when that returns a backend it builds a new
\* ThreadedFrameReader on the new backend and starts it.
C12_RaisesThenReinitializes ==
    /\ [](run_pc = "main_loop" => consecutive_frame_failures < max_frame_failures)
    /\ [][(main_loop_no_frame /\ ~reader_is_healthy(frame_reader)) =>
            \/ run_pc' = "except"
            \/ consecutive_frame_failures' > consecutive_frame_failures]_vars
    /\ [][run_except => (run_pc' = "cleanup" <=> retry_count' < max_retries)]_vars
    /\ [][\A r \in ReaderIds :
            (rd_alive'[r] /\ ~rd_alive[r]) => (rd_camera[r] = 0 \/ run_pc = "init")]_vars
    /\ [][(run_reinit /\ cap' # 0) =>
            /\ handles[cap'] = "unopened"
            /\ rd_camera[frame_reader'] = 0
            /\ rd_camera'[frame_reader'] = cap'
            /\ rd_alive'[frame_reader']]_vars

\* the first reader gave up, the main loop raised, and the main loop now polls a
\* second reader on a second backend
C12_Witness ==
    /\ run_pc = "main_loop"
    /\ reinits = 1
    /\ frame_reader = 2
    /\ rd_camera[2] = 2
    /\ rd_alive[2]
    /\ rd_stopped[1] /\ ~rd_alive[1]

\* C16: the tracker enters frame processing (_main_loop) only with a frame
\* source: never with self.cap None after every backend variant has failed.
C16_NoProcessingWithoutSource ==
    run_pc = "main_loop" => cap # 0
(***************************************************************************)
(* Properties of MultiModalTracker._init_camera.                           *)
(***************************************************************************)
\* the variants that have been tried and have failed
FailedVariants ==
    {ic_tried[i] : i \in 1..Len(ic_tried)} \
        (IF ic_pc \in {"warmup", "probe"} THEN {ic_variant} ELSE {ic_result})

C14_AcceptedOnlyAfterProbe ==
    (ic_pc = "returned" /\ ic_result # 0) =>
        /\ ic_handle[ic_result] = "open"
        /\ ic_probe[ic_result] = "frame"

\* C15: when the next variant is tried, and when initialization returns failure,
\* no capture handle or subprocess of a failed variant is open, no reader thread
\* runs, and self._camera_format is what it was before the failed variants ran.
C15_NothingSurvivesFailure ==
    (ic_pc \in {"open", "failed"} \/ (ic_pc = "returned" /\ ic_result = 0)) =>
        /\ \A v \in FailedVariants : ic_handle[v] # "open"
        /\ ~ic_thread
        /\ camera_format = format_at_entry
(***************************************************************************)
(* Properties of GestureRecognizer.recognize_gesture.                      *)
(***************************************************************************)
\* the stored templates that are at or above the threshold and not in cooldown,
\* for an input with similarities sims
MeetsBoth(sims) ==
    {n \in Stored : /\ sims[n] >= settings.similarity_threshold
                    /\ g_now - last_trigger_time[n] >= settings.cooldown_time}
\* those of them with a similarity above 0
EligibleNames(sims) == {n \in MeetsBoth(sims) : sims[n] > 0}
\* the names of S with the highest similarity
BestOf(S, sims) == {n \in S : \A m \in S : sims[m] <= sims[n]}
\* the stored templates at or above the threshold
AboveThreshold(sims) == {n \in Stored : sims[n] >= settings.similarity_threshold}

\* a step of recognize_gesture: what every such step leaves behind is looked at
\* first, then the call itself
recognize_gesture_step == g_held' /\ settings' = settings /\ recognize_gesture

\* C17 as stated: with recognition enabled recognize_gesture returns a template
\* of highest similarity among those at or above the threshold and not in
\* cooldown, and None only if there is no such template.
C17_BestMeetingBoth ==
    [][(settings.recognition_enabled /\ recognize_gesture_step) =>
          IF MeetsBoth(g_sims') = {} THEN g_result' = NoMatch
          ELSE g_result'.name \in BestOf(MeetsBoth(g_sims'), g_sims')]_vars

\* C17, amended: with recognition enabled recognize_gesture returns a template of
\* highest similarity among those whose similarity is above 0, at or above the
\* threshold and not in cooldown, with that similarity, and None only if there is
\* no such template.
C17_BestEligible ==
    [][(settings.recognition_enabled /\ recognize_gesture_step) =>
          IF EligibleNames(g_sims') = {} THEN g_result' = NoMatch
          ELSE /\ g_result'.name \in BestOf(EligibleNames(g_sims'), g_sims')
               /\ g_result'.similarity = g_sims'[g_result'.name]]_vars

\* both templates are at or above the threshold and out of cooldown, and the one
\* with the higher similarity has just been returned
C17_Witness ==
    /\ g_held
    /\ Stored = Names
    /\ g_result.name = "palm"
    /\ last_trigger_time["palm"] = g_now
    /\ g_sims["palm"] > g_sims["fist"]
    /\ g_sims["fist"] > 0
    /\ g_sims["fist"] >= settings.similarity_threshold
    /\ g_now - last_trigger_time["fist"] >= settings.cooldown_time

\* C18 as stated: when the one template of highest similarity at or above the
\* threshold is in cooldown, recognize_gesture returns None.
C18_NoFallback ==
    [][(settings.recognition_enabled /\ recognize_gesture_step) =>
          \A n \in Stored :
             (/\ BestOf(AboveThreshold(g_sims'), g_sims') = {n}
              /\ g_now - last_trigger_time[n] < settings.cooldown_time)
                => g_result' = NoMatch]_vars

\* C18, amended: the cooldown check is made for every template that beats the
\* running best at or above the threshold; when the one template of highest
\* similarity is in cooldown it is passed over and recognize_gesture returns the
\* template of highest similarity among those at or above the threshold and out
\* of cooldown, and None only if there is none.
C18_FallsBack ==
    [][(settings.recognition_enabled /\ recognize_gesture_step) =>
          \A n \in Stored :
             (/\ BestOf(AboveThreshold(g_sims'), g_sims') = {n}
              /\ g_now - last_trigger_time[n] < settings.cooldown_time)
                => /\ g_result'.name # n
                   /\ \A m \in EligibleNames(g_sims') :
                         /\ g_result' # NoMatch
                         /\ g_sims'[m] <= g_result'.similarity
                   /\ g_result' # NoMatch => g_result'.name \in EligibleNames(g_sims')]_vars

\* the template of highest similarity was in cooldown and the other one has just
\* been returned
C18_Witness ==
    /\ g_held
    /\ Stored = Names
    /\ g_result.name = "fist"
    /\ last_trigger_time["fist"] = g_now
    /\ g_sims["palm"] > g_sims["fist"]
    /\ g_now - last_trigger_time["palm"] < settings.cooldown_time

C20_MatchIsValid ==
    [][(recognize_gesture /\ g_result' # NoMatch) =>
          /\ g_result'.name \in Stored
          /\ g_sims'[g_result'.name] >= settings.similarity_threshold
          /\ g_now - last_trigger_time[g_result'.name] >= settings.cooldown_time]_vars

\* a match at the highest threshold, returned a second time after the cooldown
C20_Witness ==
    /\ g_held
    /\ g_result.name = "fist"
    /\ g_result.similarity = settings.similarity_threshold
    /\ settings.similarity_threshold = MaxSim
    /\ settings.cooldown_time > 0
    /\ last_trigger_time["fist"] = g_now
    /\ g_now > Epoch

\* C21: a recognize_gesture call that returns a match sets the cooldown entry of
\* the returned template to the time of that call and leaves every other entry
\* as it was; every other step (a call that returns None, add_gesture,
\* remove_gesture, update_settings, the passing of time) leaves every entry as
\* it was.
C21_CooldownFrame ==
    [][IF recognize_gesture_step /\ g_result' # NoMatch
       THEN last_trigger_time' =
               [last_trigger_time EXCEPT ![g_result'.name] = g_now]
       ELSE last_trigger_time' = last_trigger_time]_vars

\* fist has just been returned and its entry is the time of the call, while the
\* entry palm got from an earlier call is still the earlier time
C21_Witness ==
    /\ g_held
    /\ g_result.name = "fist"
    /\ last_trigger_time["fist"] = g_now
    /\ "palm" \in Stored
    /\ last_trigger_time["palm"] # 0
    /\ last_trigger_time["palm"] < g_now

\* C22: with recognition_enabled false, or with no template stored,
\* recognize_gesture returns None and leaves the cooldown entries as they were,
\* for every input.
C22_OffReturnsNone ==
    [][(recognize_gesture /\ (~settings.recognition_enabled \/ Stored = {})) =>
          /\ g_result' = NoMatch
          /\ last_trigger_time' = last_trigger_time]_vars

\* recognition is disabled, and a call returned None for an input that is at the
\* highest similarity to a stored template that is out of cooldown
C22_Witness ==
    /\ g_held
    /\ ~settings.recognition_enabled
    /\ "fist" \in Stored
    /\ g_sims["fist"] = MaxSim
    /\ g_now - last_trigger_time["fist"] >= settings.cooldown_time
    /\ g_result = NoMatch

(***************************************************************************)
(* Properties of the processing loops and of landmark vectors.             *)
(***************************************************************************)
\* the addresses of the messages the last pass published
Addresses(events) == {e.address : e \in events}

\* C23 as stated: on every match recognition produces in a pass of a processing
\* loop, that pass publishes the trigger_data of the template with the payload
\* [1.0], and /gesture/recognized with the name and the similarity.
C23_MatchPublishesTwo ==
    [][((\/ \E hand \in CameraHands, recognition_enabled \in BOOLEAN :
              camera_loop(hand, recognition_enabled)
         \/ \E hand \in CameraHands : process_hands(hand))
        /\ last_call'.returned = "match") =>
          /\ gesture_data[g_result'.name].trigger_data \in Addresses(published')
          /\ "/gesture/recognized" \in Addresses(published')
          /\ \A e \in published' :
                /\ e.address = gesture_data[g_result'.name].trigger_data
                      => e.data = <<1>>
                /\ e.address = "/gesture/recognized"
                      => e.data = <<g_result'.name, g_result'.similarity>>]_vars

\* C25: for a vector whose length is not 42, normalize_landmarks raises
\* ValueError and returns no array; calculate_similarity returns 0.0 when either
\* vector has such a length; recognize_gesture computes similarity 0.0 with
\* every template, returns None and leaves the cooldown entries as they were.
C25_WrongLengthRejected ==
    /\ [][(/\ last_call'.landmarks \in LoopInputs
           /\ normalize_landmarks_call(last_call'.landmarks)) =>
             IF Len(last_call'.landmarks) # LandmarkCount
             THEN last_call'.raised = "ValueError" /\ last_call'.returned = ""
             ELSE last_call'.raised = "" /\ last_call'.value = LandmarkCount]_vars
    /\ [][(/\ last_call'.landmarks \in LoopInputs
           /\ calculate_similarity_call(last_call'.landmarks, last_call'.name)
           /\ \/ Len(last_call'.landmarks) # LandmarkCount
              \/ Len(gesture_data[last_call'.name].landmarks) # LandmarkCount)
             => last_call'.value = 0 /\ last_call'.raised = ""]_vars
    /\ [][(/\ last_call'.landmarks \in LoopInputs
           /\ recognize_gesture_call(last_call'.landmarks)
           /\ Len(last_call'.landmarks) # LandmarkCount)
             => /\ \A n \in Names : g_sims'[n] = 0
                /\ g_result' = NoMatch
                /\ last_trigger_time' = last_trigger_time]_vars

\* at threshold 0 a vector of a wrong length has just been given to
\* recognize_gesture, which returned None, while fist holds a template of 42
\* values that has matched before and is out of cooldown
C25_Witness ==
    /\ last_call.op = "recognize_gesture"
    /\ Len(last_call.landmarks) # LandmarkCount
    /\ settings.recognition_enabled
    /\ settings.similarity_threshold = 0
    /\ "fist" \in DOMAIN gesture_data
    /\ Len(gesture_data["fist"].landmarks) = LandmarkCount
    /\ last_trigger_time["fist"] # 0
    /\ g_now - last_trigger_time["fist"] >= settings.cooldown_time
    /\ g_result = NoMatch

(***************************************************************************)
(* Properties of the template store and its document.                      *)
(***************************************************************************)
\* C24: add_gesture with a vector whose length is not 42 raises ValueError and
\* leaves the templates, the settings and the document as they were.
C24_WrongLengthAddRejected ==
    [][(/\ add_gesture_store(last_call'.name, last_call'.landmarks,
                             last_call'.trigger_data)
        /\ Len(last_call'.landmarks) # LandmarkCount)
          => /\ last_call'.raised = "ValueError"
             /\ gestures' = gestures
             /\ gesture_data' = gesture_data
             /\ settings' = settings
             /\ document' = document]_vars

\* add_gesture has just raised for a name that holds a template, and the
\* template and the document still hold its vector of 42 values
C24_Witness ==
    /\ last_call.op = "add_gesture"
    /\ last_call.raised = "ValueError"
    /\ Len(last_call.landmarks) # LandmarkCount
    /\ last_call.name \in DOMAIN gesture_data
    /\ Len(gesture_data[last_call.name].landmarks) = LandmarkCount
    /\ document.kind = "json"
    /\ document.hand_gestures = gesture_data

\* C26: after add_gesture(name, v, ...) returns, self.gestures[name] holds v as
\* its landmarks; the names stored are the earlier ones and name, each once, and
\* the data under every other name is as it was.
C26_AddStoresExactly ==
    [][(/\ add_gesture_store(last_call'.name, last_call'.landmarks,
                             last_call'.trigger_data)
        /\ last_call'.raised = "")
          => LET name == last_call'.name
             IN /\ name \in DOMAIN gesture_data'
                /\ gesture_data'[name].landmarks = last_call'.landmarks
                /\ DOMAIN gesture_data' = DOMAIN gesture_data \cup {name}
                /\ {gestures'[i] : i \in 1..Len(gestures')} = DOMAIN gesture_data'
                /\ Len(gestures') = Cardinality(DOMAIN gesture_data')
                /\ \A other \in DOMAIN gesture_data \ {name} :
                      gesture_data'[other] = gesture_data[other]]_vars

\* add_gesture has just returned for a name that held a template before, it now
\* holds the vector of the call, and another template is stored
C26_Witness ==
    /\ last_call.op = "add_gesture"
    /\ last_call.returned = "None"
    /\ last_call.existed
    /\ last_call.name = "fist"
    /\ last_call.landmarks = SideHand
    /\ gesture_data["fist"].landmarks = SideHand
    /\ "palm" \in DOMAIN gesture_data
    /\ gesture_data["palm"].landmarks = OpenHand

C28_OnlyRecognizedKeys ==
    [][update_settings_store(last_call'.kwargs) =>
          /\ DOMAIN settings' = DOMAIN settings
          /\ \A key \in DOMAIN settings :
                settings'[key] =
                   IF key \in RecognizedKeys \cap DOMAIN last_call'.kwargs
                   THEN last_call'.kwargs[key] ELSE settings[key]
          /\ gestures' = gestures
          /\ gesture_data' = gesture_data]_vars

\* C29 as stated: in a recognizer that has been built, similarity_threshold is
\* in [0, 1], cooldown_time is not negative and recognition_enabled is a boolean.
C29_SettingsInRange ==
    last_call.op # "new" =>
       /\ settings.similarity_threshold \in 0..MaxSim
       /\ settings.cooldown_time >= 0
       /\ settings.recognition_enabled \in BOOLEAN

\* C30 as stated: add_gesture with the empty name raises and leaves the
\* templates and the document as they were, and no template is stored or saved
\* under the empty name.
C30_NoEmptyName ==
    /\ "" \notin DOMAIN gesture_data
    /\ "" \notin DOMAIN document.hand_gestures

(***************************************************************************)
(* Properties of the templates a store holds and of the document.          *)
(***************************************************************************)
\* C31 as stated: every template the store holds has a landmark vector of exactly
\* 42 values, whatever document it was built on and whatever was added or removed.
C31_AllTemplates42 ==
    \A n \in DOMAIN gesture_data : Len(gesture_data[n].landmarks) = LandmarkCount

\* C33: when reading or parsing the document fails in load_gestures, the call
\* that built the store returns without an error and the store holds no template,
\* also when the failure came after the templates of the document were assigned.
C33_FailedLoadLeavesEmpty ==
    [][(GestureRecognizer_init /\ document.kind \in {"broken", "json_settings_list"})
          => /\ last_call'.raised = ""
             /\ gesture_data' = EmptyDict
             /\ gestures' = << >>]_vars

\* a store built on the document whose settings fail after its template was read
C33_Witness ==
    /\ last_call.op = "__init__"
    /\ document = SettingsListDocument
    /\ document.hand_gestures # EmptyDict
    /\ gesture_data = EmptyDict

\* C32 as stated: when the write of the document fails in save_gestures, the
\* file holds what it held before the call, the call returns without an error,
\* and the object's templates and settings are as the operation left them.
C32_FailedSaveLeavesFile ==
    [][last_save'.outcome \in {"not_opened", "cut_short"}
          => /\ document' = document
             /\ last_call'.raised = ""
             /\ last_call'.op = "add_gesture"
                   => last_call'.name \in DOMAIN stores'[last_save'.instance].hand_gestures
             /\ last_call'.op = "remove_gesture"
                   => last_call'.name \notin DOMAIN stores'[last_save'.instance].hand_gestures
             /\ last_call'.op = "update_settings"
                   => \A key \in DOMAIN last_call'.kwargs :
                         stores'[last_save'.instance].settings[key]
                            = last_call'.kwargs[key]]_vars

\* a call has saved: add_gesture that did not raise, remove_gesture of a name
\* that was there, update_settings
Saved(call) ==
    \/ call.op = "add_gesture" /\ call.raised = ""
    \/ call.op = "remove_gesture" /\ call.returned = "True"
    \/ call.op = "update_settings"

\* C34: after an add_gesture, remove_gesture or update_settings whose save was
\* written, the document is the object's templates (names in their order, with
\* vectors, descriptions and triggers) and settings, and a new object built on
\* the document holds the same templates and the same settings.
C34_DocumentIsMemory ==
    Saved(last_call)
       => /\ document = json_dump(gestures, gesture_data, settings)
          /\ load_gestures(document, << >>, EmptyDict, DefaultSettings)
                = [order |-> gestures, hand_gestures |-> gesture_data,
                   settings |-> settings]

\* the tracker's toggle saved, with a template held and the threshold changed
C34_Witness ==
    /\ last_call.op = "update_settings"
    /\ ~settings.recognition_enabled
    /\ settings.similarity_threshold # DefaultSettings.similarity_threshold
    /\ "fist" \in DOMAIN gesture_data
    /\ gesture_data["fist"].trigger_data = "/go"
    /\ document.kind = "json"

\* C40 as stated: a written save by one of the two objects never takes out of
\* the document a template it held before (other than the one a remove_gesture
\* was called for) nor changes a setting it held (other than those an
\* update_settings was called with).
C40_SaveKeepsOthersWork ==
    [][(last_save'.outcome = "written" /\ document.kind = "json")
          => /\ \A n \in DOMAIN document.hand_gestures :
                   \/ n \in DOMAIN document'.hand_gestures
                   \/ last_call'.op = "remove_gesture" /\ last_call'.name = n
             /\ \A key \in DOMAIN document.settings :
                   \/ document'.settings[key] = document.settings[key]
                   \/ key \in DOMAIN last_call'.kwargs]_vars

Sliced == stream_pos - Len(buffer)

\* C35: however the stream is cut into chunks, the buffer holds the bytes read
\* and not yet sliced, in stream order and without a gap; what has been sliced
\* off is a whole number of frames; the frame handed to conversion, and each
\* frame in the queue, is the bytes [k*S, (k+1)*S) of the stream for the k it
\* was sliced at; and once a chunk has been processed fewer than S bytes remain.
C35_SlicesTheStream ==
    /\ buffer = Chunk(Sliced, Len(buffer))
    /\ Sliced % yuv_frame_size = 0
    /\ bgr_frame # None => bgr_frame = Chunk(Sliced - yuv_frame_size, yuv_frame_size)
    /\ \A i \in 1..Len(v_frame_queue) :
          \E k \in 0..(MaxFrames - 1) :
             /\ (k + 1) * yuv_frame_size <= Sliced
             /\ v_frame_queue[i] = Chunk(k * yuv_frame_size, yuv_frame_size)
    /\ reader_thread \in {"top", "read", "dead"} => Len(buffer) < yuv_frame_size

\* the second frame has been sliced off, out of chunks that ended past its end
C35_Witness ==
    /\ bgr_frame = Chunk(yuv_frame_size, yuv_frame_size)
    /\ Len(buffer) > 0
    /\ Len(v_frame_queue) > 0
    /\ v_frame_queue[1] = Chunk(0, yuv_frame_size)

\* C36 as stated: the loop of _frame_reader ends only on release, or with the
\* source process exited after zero-byte reads in a row; it does not end on the
\* exit of the process alone nor after a single zero-byte read.
C36_EndsOnlyOnStarvedExit ==
    [][(reader_thread # "dead" /\ reader_thread' = "dead")
          => \/ ~v_running
             \/ process = "none"
             \/ process = "exited" /\ zero_reads >= SustainedReads]_vars

\* a get_latest_frame call returns a frame in this step
ReturnsFrame == mpc \in {"drain", "dget", "wait"} /\ mpc' = "idle" /\ result'.ret

\* C39: the frames successive get_latest_frame calls return are in strictly
\* increasing capture order: a call that returns a frame returns one captured
\* after the frame the last such call returned, whatever the acquisition thread
\* does in between.
C39_ReturnsInCaptureOrder ==
    [][ReturnsFrame
          => /\ result'.frame > last_returned
             /\ last_returned' = result'.frame]_vars

\* a call that found the queue empty came between two calls that returned frames
C39_Witness ==
    /\ last_returned > 1
    /\ result = NoFrame
    /\ mpc = "wait"
    /\ Len(frame_queue) > 0

\* the threads that are reading the camera or pushing the frame they read
Acquiring == {t \in Threads : pc[t] \in {"read", "full", "evict", "put"}}

\* C38 as stated: whatever the order of the start() and stop() calls, at most
\* one thread of the reader is reading the camera or pushing to the queue, and
\* a thread that ends never clears the running flag while a thread started
\* after it is the reader's thread.
C38_OneAcquisitionThread ==
    /\ [](Cardinality(Acquiring) <= 1)
    /\ [][\A t \in Threads :
             (pc[t] = "exit" /\ pc'[t] = "dead" /\ thread # t /\ Alive(thread))
                => running' = running]_vars
====
